---- MODULE Spec2Model ----
(***************************************************************************)
(* Model of the HMS backend core: the appointment status lifecycle         *)
(* (appointment.service.ts, doctor.service.ts), the billing ledger         *)
(* (doctor.service.ts) and the notification store / dispatcher             *)
(* (notification.service.ts, websocket.service.ts).                        *)
(*                                                                         *)
(* Every request handler is an async function; each `await prisma...` is   *)
(* one atomic database step, and other requests may run between two steps. *)
(* A request is a record proc[p]; its field pc is the handler's position.  *)
(***************************************************************************)
EXTENDS Integers, Sequences, FiniteSets, TLC

\* Number of requests handled in one behaviour, one at a time.
MaxOps == 4
\* Number of requests handled in one behaviour when their steps interleave.
MaxConcOps == 3

\* ------------------------------------------------------------------ data
\* The User, Patient and Doctor tables; no modelled operation writes them.
PatientUsers == {"pu1", "pu2"}
DoctorUsers == {"du1", "du2"}
AdminSeq == <<"ad1", "ad2">>
AdminUsers == {AdminSeq[i] : i \in DOMAIN AdminSeq}
Users == PatientUsers \cup DoctorUsers \cup AdminUsers
\* A user row whose status is not 'ACTIVE', and an id no user row has.
InactiveUsers == {"pu3"}
UnknownIds == {"ghost"}
UserIds == Users \cup InactiveUsers \cup UnknownIds
\* user.role
RoleOf(u) ==
  CASE u \in PatientUsers \cup InactiveUsers -> "PATIENT"
    [] u \in DoctorUsers -> "DOCTOR"
    [] u \in AdminUsers -> "ADMIN"
    [] OTHER -> ""

\* prisma.patient.findUnique({ where: { user_id } }): the patient id, 0 for none.
PatientOfUser(u) == CASE u = "pu1" -> 1 [] u = "pu2" -> 2 [] OTHER -> 0
\* prisma.doctor.findFirst({ where: { user_id } }): the doctor id, 0 for none.
DoctorOfUser(u) == CASE u = "du1" -> 1 [] u = "du2" -> 2 [] OTHER -> 0
DoctorIds == {1, 2}
\* patient.user_id and doctor.user_id
UserOfPatient(p) == CASE p = 1 -> "pu1" [] p = 2 -> "pu2" [] OTHER -> "none"
UserOfDoctor(d) == CASE d = 1 -> "du1" [] d = 2 -> "du2" [] OTHER -> "none"

\* An enum with one more member.
AppointmentStatusWithArchived ==
  {"PENDING", "SCHEDULED", "COMPLETED", "CANCELLED", "ARCHIVED"}

\* enum AppointmentStatus
AppointmentStatus == {"PENDING", "SCHEDULED", "COMPLETED", "CANCELLED"}

\* appointment_date is counted in days from the day the requests are handled.
Dates == {1, 3}
Times == {"09:00", "10:00"}
Types == {"checkup", "urgent"}
Hours == {7, 12}
Reasons == {"none", "emergency"}

VARIABLES
  appointments,   \* Appointment table: sequence, id = index
  payments,       \* Payment table (invoices): sequence, id = index
  bills,          \* PatientBills table: sequence, id = index, deleted rows flagged
  services,       \* Services table: id -> price
  notifications,  \* Notification table: sequence, id = index
  webSocketService, \* notification.service's module variable: installed or not
  sockets,        \* Socket.IO connections attempted so far: sequence of
                  \* [userId, userRole, connected, token], socket id = index;
                  \* userId is "" for a connection the middleware refused
  connectedUsers, \* WebSocketService.connectedUsers: userId -> socket id (0 = absent)
  pushed,         \* notification ids handed to sendNotificationToUser
  delivered,      \* <<socket id, notification id>> pairs emitted as new_notification
  emitted,        \* <<socket id, role>> pairs emitted as role_notification
  proc,           \* the requests in flight
  budget          \* requests that may still start (bounds the behaviour)

vars == <<appointments, payments, bills, services, notifications, webSocketService,
          sockets, connectedUsers, pushed, delivered, emitted, proc, budget>>

Procs == {1, 2}

NoPre == [appointments |-> <<>>, payments |-> <<>>, bills |-> <<>>, notifications |-> <<>>,
          services |-> <<>>]

Idle == [op |-> "none", pc |-> "idle", userId |-> "none", appointmentId |-> 0,
         status |-> "none", reason |-> "none", doctor_id |-> 0, patient_id |-> 0,
         date |-> 0, time |-> "none", type |-> "none", hour |-> 0,
         service_id |-> 0, quantity |-> 0, billId |-> 0, discount |-> 0,
         paymentId |-> 0, price |-> 0, total |-> 0, existingStatus |-> "none",
         billQuantity |-> 0, billUnitCost |-> 0,
         todo |-> <<>>, notifId |-> 0, raised |-> FALSE, unread |-> FALSE,
         result |-> "none", out |-> <<>>, failedBefore |-> FALSE,
         bill_date |-> "none", payable |-> 0, discountAmount |-> 0, pre |-> NoPre]

\* The state a request starts from (kept for the statements about its effect).
Snapshot == [appointments |-> appointments, payments |-> payments, bills |-> bills,
             notifications |-> notifications, services |-> services]

CanStart(p) == proc[p].pc \in {"idle", "done"} /\ budget > 0

\* The record of a request as it starts; failedBefore tells whether an earlier
\* request of the same client ended with an error.
Begin(p, fields) ==
  fields @@ [Idle EXCEPT !.pre = Snapshot,
                         !.failedBefore = proc[p].failedBefore
                                          \/ proc[p].result \notin {"none", "ok"}]

\* ------------------------------------------------------- notification.service
\* A row created as already read.
NewNotificationAlreadyRead(n) ==
  [userId |-> n.userId, title |-> n.title, message |-> n.message, isRead |-> TRUE]

\* prisma.notification.create of createNotification
NewNotification(n) == [userId |-> n.userId, title |-> n.title, message |-> n.message,
                       isRead |-> FALSE]

\* A dispatcher that hands the notification to the push before any row exists.
CreateNotificationPushFirst(p) ==
  /\ proc[p].pc = "cn_create"
  /\ proc' = [proc EXCEPT ![p].pc = "cn_push", ![p].notifId = Len(notifications) + 1]
  /\ UNCHANGED <<appointments, payments, bills, services, notifications, webSocketService,
                 sockets, connectedUsers, pushed, delivered, emitted, budget>>

\* createNotification, first half: the row is persisted.
CreateNotificationPersist(p) ==
  /\ proc[p].pc = "cn_create"
  /\ notifications' = Append(notifications, NewNotification(Head(proc[p].todo)))
  /\ proc' = [proc EXCEPT ![p].pc = "cn_push", ![p].notifId = Len(notifications) + 1]
  /\ UNCHANGED <<appointments, payments, bills, services, webSocketService, sockets,
                 connectedUsers, pushed, delivered, emitted, budget>>

\* A room every connected socket has joined.
RoomOfEveryone(userId) ==
  {s \in DOMAIN sockets : sockets[s].connected}

\* A room looked up through connectedUsers.
RoomOfRegisteredSocket(userId) ==
  {s \in DOMAIN sockets : sockets[s].connected /\ connectedUsers[userId] = s}

\* WebSocketService.sendNotificationToUser: io.to(`user_${userId}`).emit(...)
\* The connected sockets that joined the room `user_${userId}`.
RoomOf(userId) ==
  {s \in DOMAIN sockets : sockets[s].connected /\ sockets[s].userId = userId}

\* createNotification: prisma.notification.create is rejected by the database;
\* neither createNotification nor its callers catch it.
CreateNotificationFails(p) ==
  /\ proc[p].pc = "cn_create"
  /\ proc' = [proc EXCEPT ![p].pc = "done", ![p].result = "error"]
  /\ UNCHANGED <<appointments, payments, bills, services, notifications, webSocketService,
                 sockets, connectedUsers, pushed, delivered, emitted, budget>>

\* What the handler does once its createNotification call returned.
AfterNotification(r) ==
  IF Tail(r.todo) = <<>>
    THEN [r EXCEPT !.todo = <<>>, !.pc = "done", !.result = "ok"]
    ELSE [r EXCEPT !.todo = Tail(r.todo), !.pc = "cn_create"]

\* createNotification, second half: the live push, when a service is installed.
\* The call is not wrapped in try/catch: an exception of the transport leaves
\* createNotification and its caller.
CreateNotificationPush(p, raise) ==
  /\ proc[p].pc = "cn_push"
  /\ raise => webSocketService
  /\ IF webSocketService
       THEN /\ pushed' = pushed \cup {proc[p].notifId}
            /\ IF raise
                 THEN /\ delivered' = delivered
                      /\ proc' = [proc EXCEPT ![p].pc = "done", ![p].raised = TRUE,
                                              ![p].result = "error"]
                 ELSE /\ delivered' = delivered \cup
                           {<<s, proc[p].notifId>> : s \in RoomOf(Head(proc[p].todo).userId)}
                      /\ proc' = [proc EXCEPT ![p] = AfterNotification(proc[p])]
       ELSE /\ UNCHANGED <<pushed, delivered>>
            /\ proc' = [proc EXCEPT ![p] = AfterNotification(proc[p])]
  /\ UNCHANGED <<appointments, payments, bills, services, notifications, webSocketService,
                 sockets, connectedUsers, emitted, budget>>

\* A handler that has written and now sends the notifications of `plan`.
WithNotifications(r, plan) ==
  IF plan = <<>>
    THEN [r EXCEPT !.pc = "done", !.result = "ok"]
    ELSE [r EXCEPT !.pc = "cn_create", !.todo = plan]

N(userId, title, message) == [userId |-> userId, title |-> title, message |-> message]

\* for (const admin of adminUsers) await createNotification({ userId: admin.id, ... })
AdminFanout(title, message) == [i \in DOMAIN AdminSeq |-> N(AdminSeq[i], title, message)]

\* setWebSocketService(service), called once by server.ts
SetWebSocketService ==
  /\ ~webSocketService
  /\ webSocketService' = TRUE
  /\ UNCHANGED <<appointments, payments, bills, services, notifications, sockets,
                 connectedUsers, pushed, delivered, emitted, proc, budget>>

\* A call of createNotification on its own (POST /notifications).
NotifyStart(p, userId) ==
  /\ CanStart(p)
  /\ budget' = budget - 1
  /\ proc' = [proc EXCEPT ![p] =
       WithNotifications(Begin(p, [op |-> "notify", userId |-> userId]),
                         <<N(userId, "Notification", "none")>>)]
  /\ UNCHANGED <<appointments, payments, bills, services, notifications, webSocketService,
                 sockets, connectedUsers, pushed, delivered, emitted>>

RECURSIVE NewestFirst(_, _)
\* findMany({ where, orderBy: { createdAt: 'desc' } }) over the rows 1..n: the
\* ids of the rows the filter keeps, the latest created first.
NewestFirst(keep, n) ==
  IF n = 0 THEN <<>>
  ELSE (IF n \in keep THEN <<n>> ELSE <<>>) \o NewestFirst(keep, n - 1)

\* getNotifications(userId, unread)
GetNotifications(userId, unread) ==
  NewestFirst({i \in DOMAIN notifications :
                 /\ notifications[i].userId = userId
                 /\ unread => notifications[i].isRead = FALSE},
              Len(notifications))

\* A GET /notifications request: one findMany.
ListNotifications(p, userId, unread) ==
  /\ CanStart(p)
  /\ budget' = budget - 1
  /\ proc' = [proc EXCEPT ![p] =
       [Begin(p, [op |-> "list", userId |-> userId, unread |-> unread])
          EXCEPT !.pc = "done", !.result = "ok", !.out = GetNotifications(userId, unread)]]
  /\ UNCHANGED <<appointments, payments, bills, services, notifications, webSocketService,
                 sockets, connectedUsers, pushed, delivered, emitted>>

\* An update that flips the flag instead of setting it.
MarkedReadToggled(row) == [row EXCEPT !.isRead = ~@]

\* data: { isRead: true } of prisma.notification.update
MarkedRead(row) == [row EXCEPT !.isRead = TRUE]

\* markNotificationRead(id): one update, which throws when no row has the id.
MarkNotificationRead(p, id) ==
  /\ CanStart(p)
  /\ budget' = budget - 1
  /\ LET r == Begin(p, [op |-> "markRead", notifId |-> id]) IN
     IF id \in DOMAIN notifications
       THEN /\ notifications' = [notifications EXCEPT ![id] = MarkedRead(@)]
            /\ proc' = [proc EXCEPT ![p] = [r EXCEPT !.pc = "done", !.result = "ok"]]
       ELSE /\ UNCHANGED notifications
            /\ proc' = [proc EXCEPT ![p] = [r EXCEPT !.pc = "done", !.result = "error"]]
  /\ UNCHANGED <<appointments, payments, bills, services, webSocketService,
                 sockets, connectedUsers, pushed, delivered, emitted>>

\* ------------------------------------------------------- appointment.service
\* SlotHolders with the status filter left out: cancelled appointments hold the slot.
SlotHoldersAnyStatus(doctor_id, date, time) ==
  {i \in DOMAIN appointments :
     /\ appointments[i].doctor_id = doctor_id
     /\ appointments[i].appointment_date = date
     /\ appointments[i].time = time}

\* The findFirst of createAppointmentService: an appointment of the doctor at
\* that date and time whose status is not CANCELLED.
SlotHolders(doctor_id, date, time) ==
  {i \in DOMAIN appointments :
     /\ appointments[i].doctor_id = doctor_id
     /\ appointments[i].appointment_date = date
     /\ appointments[i].time = time
     /\ appointments[i].status \notin {"CANCELLED"}}

IsUrgentType(type) == type \in {"urgent", "emergency"}

\* A condition that looks at the hour only.
NotifyAdminsInBusinessHoursOnly(hour, type) == hour >= 8 /\ hour <= 17

\* currentHour >= 8 && currentHour <= 17 || type includes 'urgent' || 'emergency'
NotifyAdminsOnBooking(hour, type) == (hour >= 8 /\ hour <= 17) \/ IsUrgentType(type)

BookingNotifications(userId, doctor_id, hour, type) ==
  (IF UserOfDoctor(doctor_id) # "none"
     THEN <<N(UserOfDoctor(doctor_id), "New Appointment Request (doctor)", "none")>>
     ELSE <<>>)
  \o <<N(userId, "Appointment Request Submitted", "none")>>
  \o (IF NotifyAdminsOnBooking(hour, type)
        THEN AdminFanout("New Appointment Request (admin)", "none")
        ELSE <<>>)

\* createAppointmentService: the patient and doctor lookups.
BookStart(p, userId, doctor_id, date, time, type, hour) ==
  /\ CanStart(p)
  /\ budget' = budget - 1
  /\ LET r == Begin(p, [op |-> "book", userId |-> userId, doctor_id |-> doctor_id,
                        date |-> date, time |-> time, type |-> type, hour |-> hour,
                        patient_id |-> PatientOfUser(userId)])
     IN proc' = [proc EXCEPT ![p] =
          IF PatientOfUser(userId) = 0
            THEN [r EXCEPT !.pc = "done", !.result = "Patient profile not found"]
          ELSE IF doctor_id \notin DoctorIds
            THEN [r EXCEPT !.pc = "done", !.result = "Doctor not found"]
          ELSE [r EXCEPT !.pc = "book_check"]]
  /\ UNCHANGED <<appointments, payments, bills, services, notifications, webSocketService,
                 sockets, connectedUsers, pushed, delivered, emitted>>

\* createAppointmentService: the slot check.
BookCheck(p) ==
  /\ proc[p].pc = "book_check"
  /\ proc' = [proc EXCEPT ![p] =
       IF SlotHolders(proc[p].doctor_id, proc[p].date, proc[p].time) # {}
         THEN [@ EXCEPT !.pc = "done", !.result = "This time slot is already booked"]
         ELSE [@ EXCEPT !.pc = "book_create"]]
  /\ UNCHANGED <<appointments, payments, bills, services, notifications, webSocketService,
                 sockets, connectedUsers, pushed, delivered, emitted, budget>>

\* createAppointmentService: prisma.appointment.create, then the notifications.
BookCreate(p) ==
  /\ proc[p].pc = "book_create"
  /\ appointments' = Append(appointments,
       [patient_id |-> proc[p].patient_id, doctor_id |-> proc[p].doctor_id,
        appointment_date |-> proc[p].date, time |-> proc[p].time,
        type |-> proc[p].type, status |-> "PENDING", reason |-> "none"])
  /\ proc' = [proc EXCEPT ![p] =
       WithNotifications([@ EXCEPT !.appointmentId = Len(appointments) + 1],
         BookingNotifications(proc[p].userId, proc[p].doctor_id, proc[p].hour, proc[p].type))]
  /\ UNCHANGED <<payments, bills, services, notifications, webSocketService,
                 sockets, connectedUsers, pushed, delivered, emitted, budget>>

\* Days from today to the appointment date:
\* Math.ceil((appointmentDate.getTime() - today.getTime()) / (1000 * 3600 * 24))
DaysDiff(date) == date

\* daysDiff <= 1 of updateAppointmentStatusService
PatientCancelAlertDays == 1
\* daysDiff <= 2 of updateDoctorAppointmentStatus
DoctorCancelAlertDays == 2

\* An update that also clears the time of the row.
UpdateStatusClearingTime(appts, id, status, reason) ==
  [appts EXCEPT ![id].status = status,
                ![id].reason = IF reason = "none" THEN @ ELSE reason,
                ![id].time = "none"]

\* prisma.appointment.update({ where: { id }, data: { status, reason } }):
\* a reason that is undefined leaves the column alone.
UpdateStatus(appts, id, status, reason) ==
  [appts EXCEPT ![id].status = status,
                ![id].reason = IF reason = "none" THEN @ ELSE reason]

\* PatientMayNotCancel refusing only the terminal states.
PatientMayNotCancelTerminalOnly(status, existingStatus) ==
  status = "CANCELLED" /\ existingStatus \in {"COMPLETED", "CANCELLED"}

\* The guard of updateAppointmentStatusService: only a PENDING appointment
\* can be cancelled by its patient.
PatientMayNotCancel(status, existingStatus) ==
  status = "CANCELLED" /\ existingStatus # "PENDING"

PatientStatusNotifications(status, appt, reason) ==
  IF status = "CANCELLED" /\ UserOfDoctor(appt.doctor_id) # "none"
    THEN <<N(UserOfDoctor(appt.doctor_id), "Appointment Cancelled by Patient", reason)>>
         \o (IF DaysDiff(appt.appointment_date) <= PatientCancelAlertDays
               THEN AdminFanout("Urgent: Same-Day Appointment Cancellation", "none")
               ELSE <<>>)
    ELSE <<>>

\* updateAppointmentStatusService: the patient lookup.
PatientStatusStart(p, userId, appointmentId, status, reason) ==
  /\ CanStart(p)
  /\ budget' = budget - 1
  /\ LET r == Begin(p, [op |-> "patientStatus", userId |-> userId,
                        appointmentId |-> appointmentId, status |-> status,
                        reason |-> reason, patient_id |-> PatientOfUser(userId)])
     IN proc' = [proc EXCEPT ![p] =
          IF PatientOfUser(userId) = 0
            THEN [r EXCEPT !.pc = "done", !.result = "Patient profile not found"]
            ELSE [r EXCEPT !.pc = "ps_find"]]
  /\ UNCHANGED <<appointments, payments, bills, services, notifications, webSocketService,
                 sockets, connectedUsers, pushed, delivered, emitted>>

\* updateAppointmentStatusService: findFirst({ id, patient_id }) and the guard.
PatientStatusFind(p) ==
  /\ proc[p].pc = "ps_find"
  /\ LET id == proc[p].appointmentId
         found == id \in DOMAIN appointments /\ appointments[id].patient_id = proc[p].patient_id
     IN proc' = [proc EXCEPT ![p] =
          IF ~found
            THEN [@ EXCEPT !.pc = "done", !.result = "Appointment not found"]
          ELSE IF PatientMayNotCancel(proc[p].status, appointments[id].status)
            THEN [@ EXCEPT !.pc = "done", !.existingStatus = appointments[id].status,
                           !.result = "Only pending appointments can be cancelled"]
          ELSE [@ EXCEPT !.pc = "ps_update", !.existingStatus = appointments[id].status]]
  /\ UNCHANGED <<appointments, payments, bills, services, notifications, webSocketService,
                 sockets, connectedUsers, pushed, delivered, emitted, budget>>

\* updateAppointmentStatusService: prisma.appointment.update, then the notifications.
PatientStatusUpdate(p) ==
  /\ proc[p].pc = "ps_update"
  /\ appointments' = UpdateStatus(appointments, proc[p].appointmentId,
                                  proc[p].status, proc[p].reason)
  /\ proc' = [proc EXCEPT ![p] =
       WithNotifications(@, PatientStatusNotifications(proc[p].status,
                              appointments[proc[p].appointmentId], proc[p].reason))]
  /\ UNCHANGED <<payments, bills, services, notifications, webSocketService,
                 sockets, connectedUsers, pushed, delivered, emitted, budget>>

\* ------------------------------------------------------------ doctor.service
\* A switch that sends no reminder after the approval.
DoctorStatusNotificationsNoReminder(status, appt, reason) ==
  LET patient == UserOfPatient(appt.patient_id) IN
  CASE status = "SCHEDULED" -> <<N(patient, "Appointment Approved!", "none")>>
    [] status = "COMPLETED" -> <<N(patient, "Appointment Completed", "none")>>
    [] OTHER -> <<N(patient, "Appointment Status Updated", "none")>>

\* The switch of updateDoctorAppointmentStatus: the admin alerts of a
\* cancellation are created inside the case, the patient's message after it.
DoctorStatusNotifications(status, appt, reason) ==
  LET patient == UserOfPatient(appt.patient_id) IN
  IF patient = "none" THEN <<>>
  ELSE CASE status = "SCHEDULED" ->
              <<N(patient, "Appointment Approved!", "none"),
                N(patient, "Appointment Reminder", "none")>>
         [] status = "COMPLETED" ->
              <<N(patient, "Appointment Completed", "none")>>
         [] status = "CANCELLED" ->
              (IF DaysDiff(appt.appointment_date) <= DoctorCancelAlertDays
                 THEN AdminFanout("Doctor Cancelled Appointment", reason)
                 ELSE <<>>)
              \o <<N(patient, "Appointment Cancelled", reason)>>
         [] OTHER ->
              <<N(patient, "Appointment Status Updated", "none")>>

\* updateDoctorAppointmentStatus: the enum check and the doctor lookup.
DoctorStatusStart(p, userId, appointmentId, status, reason) ==
  /\ CanStart(p)
  /\ budget' = budget - 1
  /\ LET r == Begin(p, [op |-> "doctorStatus", userId |-> userId,
                        appointmentId |-> appointmentId, status |-> status,
                        reason |-> reason, doctor_id |-> DoctorOfUser(userId)])
     IN proc' = [proc EXCEPT ![p] =
          IF status \notin AppointmentStatus
            THEN [r EXCEPT !.pc = "done", !.result = "Invalid status value"]
          ELSE IF DoctorOfUser(userId) = 0
            THEN [r EXCEPT !.pc = "done", !.result = "Doctor not found"]
          ELSE [r EXCEPT !.pc = "ds_find"]]
  /\ UNCHANGED <<appointments, payments, bills, services, notifications, webSocketService,
                 sockets, connectedUsers, pushed, delivered, emitted>>

\* A lookup by the appointment id alone.
AppointmentOfAnyDoctor(id, doctor_id) ==
  id \in DOMAIN appointments

\* prisma.appointment.findFirst({ where: { id: appointmentId, doctor_id: doctor.id } })
AppointmentOfDoctor(id, doctor_id) ==
  id \in DOMAIN appointments /\ appointments[id].doctor_id = doctor_id

\* updateDoctorAppointmentStatus: findFirst({ id, doctor_id }).
DoctorStatusFind(p) ==
  /\ proc[p].pc = "ds_find"
  /\ LET id == proc[p].appointmentId
         found == AppointmentOfDoctor(id, proc[p].doctor_id)
     IN proc' = [proc EXCEPT ![p] =
          IF ~found
            THEN [@ EXCEPT !.pc = "done", !.result = "Appointment not found"]
            ELSE [@ EXCEPT !.pc = "ds_update", !.existingStatus = appointments[id].status]]
  /\ UNCHANGED <<appointments, payments, bills, services, notifications, webSocketService,
                 sockets, connectedUsers, pushed, delivered, emitted, budget>>

\* updateDoctorAppointmentStatus: prisma.appointment.update, then the notifications.
DoctorStatusUpdate(p) ==
  /\ proc[p].pc = "ds_update"
  /\ appointments' = UpdateStatus(appointments, proc[p].appointmentId,
                                  proc[p].status, proc[p].reason)
  /\ proc' = [proc EXCEPT ![p] =
       WithNotifications(@, DoctorStatusNotifications(proc[p].status,
                              appointments[proc[p].appointmentId], proc[p].reason))]
  /\ UNCHANGED <<payments, bills, services, notifications, webSocketService,
                 sockets, connectedUsers, pushed, delivered, emitted, budget>>

\* ------------------------------------------------ doctor.service: billing
\* prisma.payment.findUnique({ where: { appointment_id } }): the payment id, 0 for none.
PaymentOfAppointment(appointmentId) ==
  IF \E i \in DOMAIN payments : payments[i].appointment_id = appointmentId
    THEN CHOOSE i \in DOMAIN payments : payments[i].appointment_id = appointmentId
    ELSE 0

\* payment.bills of findUnique({ where: { id }, include: { bills: true } })
BillsOfPayment(paymentId) ==
  {b \in DOMAIN bills : ~bills[b].deleted /\ bills[b].bill_id = paymentId}

RECURSIVE SumCost(_)
\* payment.bills.reduce((sum, bill) => sum + bill.total_cost, 0)
SumCost(ids) ==
  IF ids = {} THEN 0
  ELSE LET b == CHOOSE x \in ids : TRUE IN bills[b].total_cost + SumCost(ids \ {b})

\* prisma.patientBills.findUnique({ where: { id } })
BillExists(billId) == billId \in DOMAIN bills /\ ~bills[billId].deleted

\* A lookup that finds no line once the invoice is finalized.
BillForMutationUnlessFinalized(paymentId, billId) ==
  BillExists(billId) /\ ~payments[paymentId].finalized

\* The bill deleteBillFromAppointment removes and editBillInAppointment updates.
\* Both look the line up by its id alone; the payment found for the
\* appointment is used for the recalculation only.
BillForMutation(paymentId, billId) == BillExists(billId)

\* The catalog price of a service is changed, between two billing requests.
\* The catalog is maintained outside the billing handlers, which only read it.
ServicePriceChange(service_id, price) ==
  /\ \A p \in Procs : proc[p].pc \in {"idle", "done"}
  /\ service_id \in DOMAIN services
  /\ services[service_id] # price
  /\ services' = [services EXCEPT ![service_id] = price]
  /\ UNCHANGED <<appointments, payments, bills, notifications, webSocketService,
                 sockets, connectedUsers, pushed, delivered, emitted, proc, budget>>

\* An edit that always takes the unit cost from the catalog price of the
\* line's service.
EditedBillFromCatalog(row, service_id, price, quantity, billUnitCost, billQuantity) ==
  LET sv == IF service_id # 0 THEN service_id ELSE row.service_id
      q == IF quantity # 0 THEN quantity ELSE billQuantity
  IN [row EXCEPT !.service_id = sv, !.quantity = q, !.unit_cost = services[sv],
                 !.total_cost = services[sv] * q]

\* updateData of editBillInAppointment applied to the bill row; service_id and
\* quantity are 0 when the request leaves them out, unit_cost and quantity of
\* the bill are those read by the handler's findUnique.
EditedBill(row, service_id, price, quantity, billUnitCost, billQuantity) ==
  LET withService ==
        IF service_id # 0
          THEN [row EXCEPT !.service_id = service_id, !.unit_cost = price,
                           !.total_cost = price * (IF quantity # 0 THEN quantity
                                                                 ELSE billQuantity)]
          ELSE row
  IN IF quantity # 0
       THEN [withService EXCEPT !.quantity = quantity,
               !.total_cost = (IF service_id # 0 /\ price # 0 THEN price
                                                              ELSE billUnitCost) * quantity]
       ELSE withService

\* addBillToAppointment: findUnique of the appointment.
AddBillStart(p, appointmentId, service_id, quantity) ==
  /\ CanStart(p)
  /\ budget' = budget - 1
  /\ LET r == Begin(p, [op |-> "addBill", appointmentId |-> appointmentId,
                        service_id |-> service_id, quantity |-> quantity])
     IN proc' = [proc EXCEPT ![p] =
          IF appointmentId \notin DOMAIN appointments
            THEN [r EXCEPT !.pc = "done", !.result = "Appointment not found"]
            ELSE [r EXCEPT !.pc = "ab_payment",
                           !.patient_id = appointments[appointmentId].patient_id]]
  /\ UNCHANGED <<appointments, payments, bills, services, notifications, webSocketService,
                 sockets, connectedUsers, pushed, delivered, emitted>>

\* addBillToAppointment: findUnique of the payment of the appointment.
AddBillFindPayment(p) ==
  /\ proc[p].pc = "ab_payment"
  /\ LET pay == PaymentOfAppointment(proc[p].appointmentId)
     IN proc' = [proc EXCEPT ![p] =
          IF pay = 0 THEN [@ EXCEPT !.pc = "ab_create_payment"]
                     ELSE [@ EXCEPT !.pc = "ab_service", !.paymentId = pay]]
  /\ UNCHANGED <<appointments, payments, bills, services, notifications, webSocketService,
                 sockets, connectedUsers, pushed, delivered, emitted, budget>>

\* A create on a table without the unique index on appointment_id.
AddBillCreatePaymentNotUnique(p) ==
  /\ proc[p].pc = "ab_create_payment"
  /\ payments' = Append(payments,
       [appointment_id |-> proc[p].appointmentId, discount |-> 0,
        total_amount |-> 0, status |-> "UNPAID", finalized |-> FALSE,
        bill_date |-> "now"])
  /\ proc' = [proc EXCEPT ![p].pc = "ab_refetch"]
  /\ UNCHANGED <<appointments, bills, services, notifications, webSocketService,
                 sockets, connectedUsers, pushed, delivered, emitted, budget>>

\* addBillToAppointment: prisma.payment.create; appointment_id is unique, so
\* the create of a second payment for the appointment throws.
AddBillCreatePayment(p) ==
  /\ proc[p].pc = "ab_create_payment"
  /\ IF PaymentOfAppointment(proc[p].appointmentId) # 0
       THEN /\ proc' = [proc EXCEPT ![p].pc = "done", ![p].result = "error"]
            /\ UNCHANGED payments
       ELSE /\ payments' = Append(payments,
                 [appointment_id |-> proc[p].appointmentId, discount |-> 0,
                  total_amount |-> 0, status |-> "UNPAID", finalized |-> FALSE,
                  bill_date |-> "now"])
            /\ proc' = [proc EXCEPT ![p].pc = "ab_refetch"]
  /\ UNCHANGED <<appointments, bills, services, notifications, webSocketService,
                 sockets, connectedUsers, pushed, delivered, emitted, budget>>

\* addBillToAppointment: the second findUnique of the payment.
AddBillRefetchPayment(p) ==
  /\ proc[p].pc = "ab_refetch"
  /\ LET pay == PaymentOfAppointment(proc[p].appointmentId)
     IN proc' = [proc EXCEPT ![p] =
          IF pay = 0 THEN [@ EXCEPT !.pc = "done", !.result = "Payment not found"]
                     ELSE [@ EXCEPT !.pc = "ab_service", !.paymentId = pay]]
  /\ UNCHANGED <<appointments, payments, bills, services, notifications, webSocketService,
                 sockets, connectedUsers, pushed, delivered, emitted, budget>>

\* addBillToAppointment: findUnique of the service.
AddBillFindService(p) ==
  /\ proc[p].pc = "ab_service"
  /\ proc' = [proc EXCEPT ![p] =
       IF proc[p].service_id \notin DOMAIN services
         THEN [@ EXCEPT !.pc = "done", !.result = "Service not found"]
         ELSE [@ EXCEPT !.pc = "ab_bill", !.price = services[proc[p].service_id]]]
  /\ UNCHANGED <<appointments, payments, bills, services, notifications, webSocketService,
                 sockets, connectedUsers, pushed, delivered, emitted, budget>>

\* addBillToAppointment: prisma.patientBills.create.
AddBillCreate(p) ==
  /\ proc[p].pc = "ab_bill"
  /\ bills' = Append(bills,
       [bill_id |-> proc[p].paymentId, service_id |-> proc[p].service_id,
        quantity |-> proc[p].quantity, unit_cost |-> proc[p].price,
        total_cost |-> proc[p].price * proc[p].quantity, deleted |-> FALSE])
  /\ proc' = [proc EXCEPT ![p].pc = "rc_read", ![p].billId = Len(bills) + 1]
  /\ UNCHANGED <<appointments, payments, services, notifications, webSocketService,
                 sockets, connectedUsers, pushed, delivered, emitted, budget>>

\* recalculatePaymentSummary: findUnique of the payment with its bills, and the sum.
RecalcRead(p) ==
  /\ proc[p].pc = "rc_read"
  /\ proc' = [proc EXCEPT ![p].pc = "rc_write",
                          ![p].total = SumCost(BillsOfPayment(proc[p].paymentId))]
  /\ UNCHANGED <<appointments, payments, bills, services, notifications, webSocketService,
                 sockets, connectedUsers, pushed, delivered, emitted, budget>>

\* A recalculation that also resets the discount of the payment.
RecalcWriteResettingDiscount(p) ==
  /\ proc[p].pc = "rc_write"
  /\ payments' = [payments EXCEPT ![proc[p].paymentId] =
       [@ EXCEPT !.total_amount = proc[p].total, !.discount = 0]]
  /\ proc' = [proc EXCEPT ![p] =
       IF proc[p].op = "addBill" /\ UserOfPatient(proc[p].patient_id) # "none"
         THEN WithNotifications(@, <<N(UserOfPatient(proc[p].patient_id),
                                        "New Bill Generated", "none")>>)
         ELSE [@ EXCEPT !.pc = "done", !.result = "ok"]]
  /\ UNCHANGED <<appointments, bills, services, notifications, webSocketService,
                 sockets, connectedUsers, pushed, delivered, emitted, budget>>

\* recalculatePaymentSummary: the update of total_amount; then the caller goes
\* on: addBillToAppointment notifies the patient, the others return.
RecalcWrite(p) ==
  /\ proc[p].pc = "rc_write"
  /\ payments' = [payments EXCEPT ![proc[p].paymentId].total_amount = proc[p].total]
  /\ proc' = [proc EXCEPT ![p] =
       IF proc[p].op = "addBill" /\ UserOfPatient(proc[p].patient_id) # "none"
         THEN WithNotifications(@, <<N(UserOfPatient(proc[p].patient_id),
                                        "New Bill Generated", "none")>>)
         ELSE [@ EXCEPT !.pc = "done", !.result = "ok"]]
  /\ UNCHANGED <<appointments, bills, services, notifications, webSocketService,
                 sockets, connectedUsers, pushed, delivered, emitted, budget>>

\* recalculatePaymentSummary: the findUnique or the update is rejected by the
\* database; neither recalculatePaymentSummary nor its callers catch it.
RecalcFails(p) ==
  /\ proc[p].pc \in {"rc_read", "rc_write"}
  /\ proc' = [proc EXCEPT ![p].pc = "done", ![p].result = "error"]
  /\ UNCHANGED <<appointments, payments, bills, services, notifications, webSocketService,
                 sockets, connectedUsers, pushed, delivered, emitted, budget>>

\* deleteBillFromAppointment: findUnique of the payment of the appointment.
DeleteBillStart(p, appointmentId, billId) ==
  /\ CanStart(p)
  /\ budget' = budget - 1
  /\ LET r == Begin(p, [op |-> "deleteBill", appointmentId |-> appointmentId,
                        billId |-> billId])
         pay == PaymentOfAppointment(appointmentId)
     IN proc' = [proc EXCEPT ![p] =
          IF pay = 0 THEN [r EXCEPT !.pc = "done", !.result = "Payment not found"]
                     ELSE [r EXCEPT !.pc = "db_delete", !.paymentId = pay]]
  /\ UNCHANGED <<appointments, payments, bills, services, notifications, webSocketService,
                 sockets, connectedUsers, pushed, delivered, emitted>>

\* deleteBillFromAppointment: prisma.patientBills.delete({ where: { id: billId } });
\* it throws when there is no such row.
DeleteBillDelete(p) ==
  /\ proc[p].pc = "db_delete"
  /\ IF BillForMutation(proc[p].paymentId, proc[p].billId)
       THEN /\ bills' = [bills EXCEPT ![proc[p].billId].deleted = TRUE]
            /\ proc' = [proc EXCEPT ![p].pc = "rc_read"]
       ELSE /\ UNCHANGED bills
            /\ proc' = [proc EXCEPT ![p].pc = "done", ![p].result = "error"]
  /\ UNCHANGED <<appointments, payments, services, notifications, webSocketService,
                 sockets, connectedUsers, pushed, delivered, emitted, budget>>

\* editBillInAppointment: findUnique of the payment of the appointment.
EditBillStart(p, appointmentId, billId, service_id, quantity) ==
  /\ CanStart(p)
  /\ budget' = budget - 1
  /\ LET r == Begin(p, [op |-> "editBill", appointmentId |-> appointmentId,
                        billId |-> billId, service_id |-> service_id,
                        quantity |-> quantity])
         pay == PaymentOfAppointment(appointmentId)
     IN proc' = [proc EXCEPT ![p] =
          IF pay = 0 THEN [r EXCEPT !.pc = "done", !.result = "Payment not found"]
                     ELSE [r EXCEPT !.pc = "eb_find", !.paymentId = pay]]
  /\ UNCHANGED <<appointments, payments, bills, services, notifications, webSocketService,
                 sockets, connectedUsers, pushed, delivered, emitted>>

\* editBillInAppointment: findUnique of the bill.
EditBillFind(p) ==
  /\ proc[p].pc = "eb_find"
  /\ proc' = [proc EXCEPT ![p] =
       IF ~BillForMutation(proc[p].paymentId, proc[p].billId)
         THEN [@ EXCEPT !.pc = "done", !.result = "Bill not found"]
         ELSE [@ EXCEPT !.pc = IF proc[p].service_id # 0 THEN "eb_service" ELSE "eb_update",
                        !.billQuantity = bills[proc[p].billId].quantity,
                        !.billUnitCost = bills[proc[p].billId].unit_cost]]
  /\ UNCHANGED <<appointments, payments, bills, services, notifications, webSocketService,
                 sockets, connectedUsers, pushed, delivered, emitted, budget>>

\* editBillInAppointment: findUnique of the new service.
EditBillFindService(p) ==
  /\ proc[p].pc = "eb_service"
  /\ proc' = [proc EXCEPT ![p] =
       IF proc[p].service_id \notin DOMAIN services
         THEN [@ EXCEPT !.pc = "done", !.result = "Service not found"]
         ELSE [@ EXCEPT !.pc = "eb_update", !.price = services[proc[p].service_id]]]
  /\ UNCHANGED <<appointments, payments, bills, services, notifications, webSocketService,
                 sockets, connectedUsers, pushed, delivered, emitted, budget>>

\* editBillInAppointment: prisma.patientBills.update({ where: { id: billId } });
\* it throws when the row is gone.
EditBillUpdate(p) ==
  /\ proc[p].pc = "eb_update"
  /\ IF BillExists(proc[p].billId)
       THEN /\ bills' = [bills EXCEPT ![proc[p].billId] =
                 EditedBill(@, proc[p].service_id, proc[p].price, proc[p].quantity,
                            proc[p].billUnitCost, proc[p].billQuantity)]
            /\ proc' = [proc EXCEPT ![p].pc = "rc_read"]
       ELSE /\ UNCHANGED bills
            /\ proc' = [proc EXCEPT ![p].pc = "done", ![p].result = "error"]
  /\ UNCHANGED <<appointments, payments, services, notifications, webSocketService,
                 sockets, connectedUsers, pushed, delivered, emitted, budget>>

\* discountAmount = (total * discount) / 100 of generateFinalBillForAppointment.
\* Amounts the handler returns are kept in hundredths, so that the division by
\* 100 loses nothing.
DiscountAmount(total, discount) == total * discount

\* A payable amount that takes the percentage off as if it were an amount.
PayableMinusPercentage(total, discount) == 100 * total - 100 * discount

\* payable = total - discountAmount, in hundredths
Payable(total, discount) == 100 * total - DiscountAmount(total, discount)

\* generateFinalBillForAppointment: findUnique of the payment with its bills,
\* and the amounts computed from them.
FinalBillStart(p, appointmentId, discount, bill_date) ==
  /\ CanStart(p)
  /\ budget' = budget - 1
  /\ LET r == Begin(p, [op |-> "finalBill", appointmentId |-> appointmentId,
                        discount |-> discount, bill_date |-> bill_date])
         pay == PaymentOfAppointment(appointmentId)
         total == SumCost(BillsOfPayment(pay))
     IN proc' = [proc EXCEPT ![p] =
          IF pay = 0
            THEN [r EXCEPT !.pc = "done", !.result = "No bills to generate final bill"]
            ELSE [r EXCEPT !.pc = "fb_update", !.paymentId = pay, !.total = total,
                           !.discountAmount = DiscountAmount(total, discount),
                           !.payable = Payable(total, discount)]]
  /\ UNCHANGED <<appointments, payments, bills, services, notifications, webSocketService,
                 sockets, connectedUsers, pushed, delivered, emitted>>

\* generateFinalBillForAppointment: prisma.payment.update and the return.
FinalBillUpdate(p) ==
  /\ proc[p].pc = "fb_update"
  /\ payments' = [payments EXCEPT ![proc[p].paymentId] =
       [@ EXCEPT !.discount = proc[p].discount, !.total_amount = proc[p].total,
                 !.bill_date = proc[p].bill_date, !.finalized = TRUE]]
  /\ proc' = [proc EXCEPT ![p].pc = "done", ![p].result = "ok"]
  /\ UNCHANGED <<appointments, bills, services, notifications, webSocketService,
                 sockets, connectedUsers, pushed, delivered, emitted, budget>>

\* No discount in the body of an editFinalBillSummary request.
NoDiscount == -1

\* A summary edit that reopens the invoice.
EditedSummaryReopening(row, discount, bill_date) ==
  [row EXCEPT !.discount = IF discount # NoDiscount THEN discount ELSE @,
              !.bill_date = IF bill_date # "none" THEN bill_date ELSE @,
              !.finalized = FALSE]

\* updateData of editFinalBillSummary applied to the payment row
EditedSummary(row, discount, bill_date) ==
  [row EXCEPT !.discount = IF discount # NoDiscount THEN discount ELSE @,
              !.bill_date = IF bill_date # "none" THEN bill_date ELSE @]

\* editFinalBillSummary: findUnique of the payment of the appointment.
EditFinalStart(p, appointmentId, discount, bill_date) ==
  /\ CanStart(p)
  /\ budget' = budget - 1
  /\ LET r == Begin(p, [op |-> "editFinal", appointmentId |-> appointmentId,
                        discount |-> discount, bill_date |-> bill_date])
         pay == PaymentOfAppointment(appointmentId)
     IN proc' = [proc EXCEPT ![p] =
          IF pay = 0 THEN [r EXCEPT !.pc = "done", !.result = "Payment not found"]
                     ELSE [r EXCEPT !.pc = "ef_update", !.paymentId = pay]]
  /\ UNCHANGED <<appointments, payments, bills, services, notifications, webSocketService,
                 sockets, connectedUsers, pushed, delivered, emitted>>

\* editFinalBillSummary: prisma.payment.update, then recalculatePaymentSummary.
EditFinalUpdate(p) ==
  /\ proc[p].pc = "ef_update"
  /\ payments' = [payments EXCEPT ![proc[p].paymentId] =
       EditedSummary(@, proc[p].discount, proc[p].bill_date)]
  /\ proc' = [proc EXCEPT ![p].pc = "rc_read"]
  /\ UNCHANGED <<appointments, bills, services, notifications, webSocketService,
                 sockets, connectedUsers, pushed, delivered, emitted, budget>>

\* ------------------------------------------------- admin-notification.service
\* sendDailyAppointmentSummary: the appointment queries, then one
\* createNotification per ADMIN user.
SendDailyAppointmentSummary(p) ==
  /\ CanStart(p)
  /\ budget' = budget - 1
  /\ proc' = [proc EXCEPT ![p] =
       WithNotifications(Begin(p, [op |-> "dailySummary"]),
                         AdminFanout("Daily Appointment Report", "none"))]
  /\ UNCHANGED <<appointments, payments, bills, services, notifications, webSocketService,
                 sockets, connectedUsers, pushed, delivered, emitted>>

\* sendWeeklyAppointmentAnalytics: the appointment query, then one
\* createNotification per ADMIN user.
SendWeeklyAppointmentAnalytics(p) ==
  /\ CanStart(p)
  /\ budget' = budget - 1
  /\ proc' = [proc EXCEPT ![p] =
       WithNotifications(Begin(p, [op |-> "weeklyAnalytics"]),
                         AdminFanout("Weekly Analytics Report", "none"))]
  /\ UNCHANGED <<appointments, payments, bills, services, notifications, webSocketService,
                 sockets, connectedUsers, pushed, delivered, emitted>>

\* ---------------------------------------------------------- websocket.service
\* Number of Socket.IO connections accepted in one behaviour.
MaxSockets == 2

\* socket.handshake.auth.token: absent, or a JWT that jwt.verify accepts or
\* throws on, carrying an id ("" when the payload has none).
NoToken == [present |-> FALSE, valid |-> FALSE, id |-> ""]
Jwt(valid, id) == [present |-> TRUE, valid |-> valid, id |-> id]

\* prisma.user.findUnique({ where: { id }, select: { id, role, status } }):
\* the status of the row, "" when there is none.
UserStatus(id) ==
  CASE id \in Users -> "ACTIVE"
    [] id \in InactiveUsers -> "INACTIVE"
    [] OTHER -> ""

\* A middleware that admits every user it finds.
MiddlewareIgnoringStatus(token, lookupFails) ==
  IF ~token.present THEN ""
  ELSE IF ~token.valid THEN ""
  ELSE IF token.id = "" THEN ""
  ELSE IF lookupFails THEN ""
  ELSE IF UserStatus(token.id) = "" THEN ""
  ELSE token.id

\* io.use(...): the userId the middleware sets on the socket, "" when it
\* calls next(error).
Middleware(token, lookupFails) ==
  IF ~token.present THEN ""
  ELSE IF ~token.valid THEN ""
  ELSE IF token.id = "" THEN ""
  ELSE IF lookupFails THEN ""
  ELSE IF UserStatus(token.id) # "ACTIVE" THEN ""
  ELSE token.id

\* One connection attempt: the middleware, then io.on('connection') for a
\* socket it let through: join the user's room, store it in connectedUsers.
Connection(token, lookupFails) ==
  LET userId == Middleware(token, lookupFails) IN
  /\ Len(sockets) < MaxSockets
  /\ sockets' = Append(sockets, [userId |-> userId, userRole |-> RoleOf(userId),
                                 connected |-> userId # "", token |-> token])
  /\ connectedUsers' = IF userId # ""
                         THEN [connectedUsers EXCEPT ![userId] = Len(sockets) + 1]
                         ELSE connectedUsers
  /\ UNCHANGED <<appointments, payments, bills, services, notifications, webSocketService,
                 pushed, delivered, emitted, proc, budget>>

\* A connection of `userId` with the token the login issued.
Connect(userId) == Connection(Jwt(TRUE, userId), FALSE)

\* A disconnect that leaves connectedUsers as it is.
DisconnectKeepingEntry(s) ==
  /\ s \in DOMAIN sockets /\ sockets[s].connected
  /\ sockets' = [sockets EXCEPT ![s].connected = FALSE]
  /\ UNCHANGED <<appointments, payments, bills, services, notifications, webSocketService,
                 connectedUsers, pushed, delivered, emitted, proc, budget>>

\* socket.on('disconnect'): connectedUsers.delete(socket.userId)
Disconnect(s) ==
  /\ s \in DOMAIN sockets /\ sockets[s].connected
  /\ sockets' = [sockets EXCEPT ![s].connected = FALSE]
  /\ connectedUsers' = [connectedUsers EXCEPT ![sockets[s].userId] = 0]
  /\ UNCHANGED <<appointments, payments, bills, services, notifications, webSocketService,
                 pushed, delivered, emitted, proc, budget>>

\* socket.on('notification_read'): the same update as markNotificationRead,
\* its error caught and dropped.
SocketNotificationRead(s, id) ==
  /\ s \in DOMAIN sockets /\ sockets[s].connected
  /\ notifications' = IF id \in DOMAIN notifications
                        THEN [notifications EXCEPT ![id] = MarkedRead(@)]
                        ELSE notifications
  /\ UNCHANGED <<appointments, payments, bills, services, webSocketService, sockets,
                 connectedUsers, pushed, delivered, emitted, proc, budget>>

\* sendNotificationToRole: io.emit('role_notification', { role, notification })
\* reaches every connected socket.
SendNotificationToRole(role) ==
  /\ emitted' = emitted \cup
       {<<s, role>> : s \in {x \in DOMAIN sockets : sockets[x].connected}}
  /\ UNCHANGED <<appointments, payments, bills, services, notifications, webSocketService,
                 sockets, connectedUsers, pushed, delivered, proc, budget>>

\* ------------------------------------------------------------- specifications
\* Everything but the appointments booked before the behaviour starts.
InitRest ==
  /\ payments = <<>>
  /\ bills = <<>>
  /\ services = (1 :> 100) @@ (2 :> 40) @@ (3 :> 0)
  /\ notifications = <<>>
  /\ sockets = <<>>
  /\ connectedUsers = [u \in UserIds |-> 0]
  /\ pushed = {}
  /\ delivered = {}
  /\ emitted = {}
  /\ proc = [p \in Procs |-> Idle]

\* server.ts has installed the WebSocket service; nothing is booked yet.
InitBase == appointments = <<>> /\ webSocketService = TRUE /\ InitRest

Init == InitBase /\ budget = MaxOps

InitConc == InitBase /\ budget = MaxConcOps

\* The steps of a request once it has started.
ApptSteps(p) ==
  \/ BookCheck(p)
  \/ BookCreate(p)
  \/ PatientStatusFind(p)
  \/ PatientStatusUpdate(p)
  \/ DoctorStatusFind(p)
  \/ DoctorStatusUpdate(p)
  \/ CreateNotificationPersist(p)
  \/ \E raise \in BOOLEAN : CreateNotificationPush(p, raise)

\* Bookings and status changes, one request at a time.
Next ==
  \/ \E u \in PatientUsers, t \in Times : BookStart(1, u, 1, 3, t, "checkup", 7)
  \/ \E id \in {1, 2}, st \in {"CANCELLED", "SCHEDULED"} :
        PatientStatusStart(1, "pu1", id, st, "none")
  \/ \E id \in {1, 2}, st \in AppointmentStatus :
        DoctorStatusStart(1, "du1", id, st, "none")
  \/ ApptSteps(1)

Spec == Init /\ [][Next]_vars

\* Bookings and doctor decisions handled concurrently: the steps of the
\* requests interleave.
NextBookingConc ==
  \E p \in Procs :
    \/ \E u \in PatientUsers, t \in Times : BookStart(p, u, 1, 3, t, "checkup", 7)
    \/ BookCheck(p)
    \/ BookCreate(p)
    \/ \E st \in {"SCHEDULED", "CANCELLED"} : DoctorStatusStart(p, "du1", 1, st, "none")
    \/ DoctorStatusFind(p)
    \/ DoctorStatusUpdate(p)
    \/ CreateNotificationPersist(p)
    \/ CreateNotificationPush(p, FALSE)

SpecBookingConc == InitConc /\ [][NextBookingConc]_vars
\* Two appointments booked earlier, one per patient, with doctor 1.
BookedAppointment(patient_id, time) ==
  [patient_id |-> patient_id, doctor_id |-> 1, appointment_date |-> 3, time |-> time,
   type |-> "checkup", status |-> "SCHEDULED", reason |-> "none"]

InitLedgerBase ==
  /\ InitRest
  /\ webSocketService = TRUE
  /\ appointments = <<BookedAppointment(1, "09:00"), BookedAppointment(2, "10:00")>>

\* Number of billing requests handled in one behaviour, one at a time.
MaxLedgerOps == 3

InitLedger == InitLedgerBase /\ budget = MaxLedgerOps

LedgerSteps(p) ==
  \/ AddBillFindPayment(p)
  \/ AddBillCreatePayment(p)
  \/ AddBillRefetchPayment(p)
  \/ AddBillFindService(p)
  \/ AddBillCreate(p)
  \/ DeleteBillDelete(p)
  \/ EditBillFind(p)
  \/ EditBillFindService(p)
  \/ EditBillUpdate(p)
  \/ RecalcRead(p)
  \/ RecalcWrite(p)
  \/ CreateNotificationPersist(p)
  \/ CreateNotificationPush(p, FALSE)

\* Billing requests on two appointments, one request at a time.
NextLedger ==
  \/ \E a \in {1, 2}, sv \in {1, 2, 9}, q \in {1, 2} : AddBillStart(1, a, sv, q)
  \/ \E a \in {1, 2}, b \in {1, 2} : DeleteBillStart(1, a, b)
  \/ \E a \in {1, 2}, b \in {1, 2}, e \in {<<0, 3>>, <<2, 0>>, <<2, 3>>} :
        EditBillStart(1, a, b, e[1], e[2])
  \/ LedgerSteps(1)

SpecLedger == InitLedger /\ [][NextLedger]_vars

InitLedgerConc == InitLedgerBase /\ budget = MaxConcOps

\* Billing requests on the invoice of appointment 1, handled concurrently.
NextLedgerConc ==
  \E p \in Procs :
    \/ \E sv \in {1, 2} : AddBillStart(p, 1, sv, 1)
    \/ \E b \in {1, 2} : DeleteBillStart(p, 1, b)
    \/ \E e \in {<<0, 3>>, <<2, 0>>} : EditBillStart(p, 1, 1, e[1], e[2])
    \/ LedgerSteps(p)

SpecLedgerConc == InitLedgerConc /\ [][NextLedgerConc]_vars

\* Number of requests to the notification store in one behaviour.
MaxNotifOps == 3

\* notification.service before server.ts installs the WebSocket service.
InitNotif ==
  /\ InitRest
  /\ appointments = <<>>
  /\ webSocketService = FALSE
  /\ budget = MaxNotifOps

\* The notification store and its dispatcher: request 1 dispatches, request 2
\* lists and marks read, sockets connect, read and disconnect.
NextNotif ==
  \/ SetWebSocketService
  \/ \E u \in {"pu1", "du1"} : NotifyStart(1, u)
  \/ CreateNotificationPersist(1)
  \/ \E raise \in BOOLEAN : CreateNotificationPush(1, raise)
  \/ \E u \in {"pu1", "du1"}, unread \in BOOLEAN : ListNotifications(2, u, unread)
  \/ \E id \in {1, 3} : MarkNotificationRead(2, id)
  \/ Connect("pu1")
  \/ \E s \in {1, 2} : Disconnect(s)
  \/ \E s \in {1, 2} : SocketNotificationRead(s, 1)

SpecNotif == InitNotif /\ [][NextNotif]_vars

\* Number of requests on one invoice handled in one behaviour, one at a time.
MaxInvoiceOps == 4

InitInvoice == InitLedgerBase /\ budget = MaxInvoiceOps

\* The requests of the billing screen of appointment 1, one at a time: lines
\* are added, edited and deleted, the final bill is generated and its summary
\* edited. Service 3 is free of charge.
NextInvoice ==
  \/ \E sv \in {1, 3} : AddBillStart(1, 1, sv, 2)
  \/ DeleteBillStart(1, 1, 1)
  \/ \E e \in {<<0, 3>>, <<2, 0>>, <<3, 3>>} : EditBillStart(1, 1, 1, e[1], e[2])
  \/ \E a \in {1, 2}, d \in {10, 15} : FinalBillStart(1, a, d, "d1")
  \/ \E e \in {<<NoDiscount, "d2">>, <<20, "none">>} : EditFinalStart(1, 1, e[1], e[2])
  \/ FinalBillUpdate(1)
  \/ EditFinalUpdate(1)
  \/ LedgerSteps(1)

SpecInvoice == InitInvoice /\ [][NextInvoice]_vars

\* An appointment booked earlier with doctor 1, `date` days from today.
DatedAppointment(patient_id, date) ==
  [patient_id |-> patient_id, doctor_id |-> 1, appointment_date |-> date, time |-> "09:00",
   type |-> "checkup", status |-> "PENDING", reason |-> "none"]

\* Number of status requests of the doctor handled in one behaviour.
MaxDoctorOps == 2

\* Three appointments of doctor 1: one five days ago, one tomorrow, one in
\* five days.
InitDoctor ==
  /\ InitRest
  /\ webSocketService = TRUE
  /\ appointments = <<DatedAppointment(1, -5), DatedAppointment(2, 1), DatedAppointment(1, 5)>>
  /\ budget = MaxDoctorOps

\* Status requests sent to PATCH /doctor/appointments/:id/status, one at a
\* time, by the doctor of the appointments and by a user who is no doctor.
NextDoctor ==
  \/ \E id \in {1, 2, 3, 4}, st \in AppointmentStatus \cup {"ARCHIVED"}, reason \in Reasons :
        DoctorStatusStart(1, "du1", id, st, reason)
  \/ DoctorStatusStart(1, "pu1", 1, "CANCELLED", "none")
  \/ DoctorStatusFind(1)
  \/ DoctorStatusUpdate(1)
  \/ CreateNotificationPersist(1)
  \/ CreateNotificationPush(1, FALSE)

SpecDoctor == InitDoctor /\ [][NextDoctor]_vars

\* Number of billing requests handled in one behaviour when the database may
\* reject a call of the recalculation.
MaxFailOps == 2

InitLedgerFail == InitLedgerBase /\ budget = MaxFailOps

\* Billing requests on the invoice of appointment 1, one at a time, with a
\* database that may fail during recalculatePaymentSummary.
NextLedgerFail ==
  \/ \E sv \in {1, 2}, q \in {1, 2} : AddBillStart(1, 1, sv, q)
  \/ \E b \in {1, 2} : DeleteBillStart(1, 1, b)
  \/ \E b \in {1, 2}, e \in {<<0, 3>>, <<2, 0>>} : EditBillStart(1, 1, b, e[1], e[2])
  \/ LedgerSteps(1)
  \/ RecalcFails(1)

SpecLedgerFail == InitLedgerFail /\ [][NextLedgerFail]_vars

\* Number of status requests of the patient handled in one behaviour.
MaxPatientOps == 2

\* Appointments of patient 1 five days ago, tomorrow and in five days, and
\* one of patient 2.
InitPatient ==
  /\ InitRest
  /\ webSocketService = TRUE
  /\ appointments = <<DatedAppointment(1, -5), DatedAppointment(1, 1),
                      DatedAppointment(1, 5), DatedAppointment(2, 1)>>
  /\ budget = MaxPatientOps

\* Status requests of patient 1, and of a user with no patient profile, one
\* at a time.
NextPatient ==
  \/ \E id \in {1, 2, 3, 4, 5}, st \in {"CANCELLED", "SCHEDULED"}, reason \in Reasons :
        PatientStatusStart(1, "pu1", id, st, reason)
  \/ PatientStatusStart(1, "du1", 1, "CANCELLED", "none")
  \/ PatientStatusFind(1)
  \/ PatientStatusUpdate(1)
  \/ CreateNotificationPersist(1)
  \/ CreateNotificationPush(1, FALSE)

SpecPatient == InitPatient /\ [][NextPatient]_vars

\* Number of booking requests handled in one behaviour, one at a time.
MaxBookOps == 2

InitBooking == InitBase /\ budget = MaxBookOps

\* Booking requests at several hours of the day and of several types, by a
\* patient and by a user with no patient profile, with doctor 1 and with a
\* doctor that does not exist.
NextBooking ==
  \/ \E u \in {"pu1", "du1"}, d \in {1, 9}, type \in Types \cup {"emergency"},
        hour \in {7, 8, 17, 18} :
        BookStart(1, u, d, 3, "09:00", type, hour)
  \/ BookCheck(1)
  \/ BookCreate(1)
  \/ CreateNotificationPersist(1)
  \/ CreateNotificationPush(1, FALSE)

SpecBooking == InitBooking /\ [][NextBooking]_vars

\* Number of billing requests handled in one behaviour while catalog prices change.
MaxCatalogOps == 3

InitCatalog == InitLedgerBase /\ budget = MaxCatalogOps

\* Billing requests on appointment 1, one at a time, and changes of the price
\* of service 1 between them.
NextCatalog ==
  \/ \E sv \in {1, 2} : AddBillStart(1, 1, sv, 2)
  \/ \E e \in {<<0, 3>>, <<1, 0>>, <<2, 3>>} : EditBillStart(1, 1, 1, e[1], e[2])
  \/ DeleteBillStart(1, 1, 2)
  \/ \E price \in {100, 150} : ServicePriceChange(1, price)
  \/ LedgerSteps(1)

SpecCatalog == InitCatalog /\ [][NextCatalog]_vars

\* Number of requests and reports handled in one behaviour of the fan-outs.
MaxFanoutOps == 2

\* Two pending appointments of tomorrow, of patient 1 and of patient 2.
InitFanout ==
  /\ InitRest
  /\ webSocketService = TRUE
  /\ appointments = <<DatedAppointment(1, 1), DatedAppointment(2, 1)>>
  /\ budget = MaxFanoutOps

\* The five events that notify the admins, one at a time, with sends that
\* may throw.
NextFanout ==
  \/ BookStart(1, "pu1", 1, 3, "10:00", "urgent", 12)
  \/ DoctorStatusStart(1, "du1", 2, "CANCELLED", "none")
  \/ PatientStatusStart(1, "pu1", 1, "CANCELLED", "none")
  \/ SendDailyAppointmentSummary(1)
  \/ SendWeeklyAppointmentAnalytics(1)
  \/ ApptSteps(1)

SpecFanout == InitFanout /\ [][NextFanout]_vars

\* The tokens connection attempts present: none, one jwt.verify throws on, one
\* without an id, and signed ones of an active patient, an active admin, an
\* inactive user and an id without a user row.
SocketTokens ==
  {NoToken, Jwt(FALSE, "pu1"), Jwt(TRUE, ""), Jwt(TRUE, "pu1"), Jwt(TRUE, "ad1"),
   Jwt(TRUE, "pu3"), Jwt(TRUE, "ghost")}

InitSocket ==
  /\ InitRest
  /\ webSocketService = TRUE
  /\ appointments = <<>>
  /\ budget = 0

\* The Socket.IO server alone: connection attempts, disconnects and pushes
\* to a role.
NextSocket ==
  \/ \E token \in SocketTokens, lookupFails \in BOOLEAN : Connection(token, lookupFails)
  \/ \E s \in 1..MaxSockets : Disconnect(s)
  \/ \E role \in {"ADMIN", "PATIENT"} : SendNotificationToRole(role)

SpecSocket == InitSocket /\ [][NextSocket]_vars

\* Number of notifications dispatched in one behaviour.
MaxPushOps == 2

InitPush ==
  /\ InitRest
  /\ webSocketService = TRUE
  /\ appointments = <<>>
  /\ budget = MaxPushOps

\* Notifications dispatched to users whose sessions come and go.
NextPush ==
  \/ \E u \in {"pu1", "du1"} : Connect(u)
  \/ \E s \in 1..MaxSockets : Disconnect(s)
  \/ \E u \in {"pu1", "du1"} : NotifyStart(1, u)
  \/ CreateNotificationPersist(1)
  \/ \E raise \in BOOLEAN : CreateNotificationPush(1, raise)

SpecPush == InitPush /\ [][NextPush]_vars

\* Number of status requests handled in one behaviour of the party check.
MaxPartyOps == 2

\* Doctor 1 has an appointment with patient 1 tomorrow and one with patient 2
\* in five days.
InitParty ==
  /\ InitRest
  /\ webSocketService = TRUE
  /\ appointments = <<DatedAppointment(1, 1), DatedAppointment(2, 5)>>
  /\ budget = MaxPartyOps

\* Status requests of both doctors and of both patients on the two
\* appointments, one at a time.
NextParty ==
  \/ \E u \in DoctorUsers, id \in {1, 2}, st \in {"SCHEDULED", "CANCELLED"} :
        DoctorStatusStart(1, u, id, st, "none")
  \/ \E u \in PatientUsers, id \in {1, 2} :
        PatientStatusStart(1, u, id, "CANCELLED", "none")
  \/ PatientStatusFind(1)
  \/ PatientStatusUpdate(1)
  \/ DoctorStatusFind(1)
  \/ DoctorStatusUpdate(1)
  \/ CreateNotificationPersist(1)
  \/ CreateNotificationPush(1, FALSE)

SpecParty == InitParty /\ [][NextParty]_vars

\* Number of notifications dispatched in one behaviour of the read events.
MaxReadOps == 2

InitRead ==
  /\ InitRest
  /\ webSocketService = TRUE
  /\ appointments = <<>>
  /\ budget = MaxReadOps

\* Notifications are dispatched to pu1 and du1; du1 alone opens sessions and
\* sends notification_read events over them. No request marks a notification
\* read over HTTP.
NextRead ==
  \/ Connect("du1")
  \/ \E s \in 1..MaxSockets : Disconnect(s)
  \/ \E u \in {"pu1", "du1"} : NotifyStart(1, u)
  \/ CreateNotificationPersist(1)
  \/ CreateNotificationPush(1, FALSE)
  \/ \E s \in 1..MaxSockets, id \in {1, 2} : SocketNotificationRead(s, id)

SpecRead == InitRead /\ [][NextRead]_vars

\* Number of addBill requests handled in one behaviour of the lazy creation.
MaxAddOps == 2

InitAddConc == InitLedgerBase /\ budget = MaxAddOps

\* addBill requests for two appointments that have no payment yet, handled
\* concurrently.
NextAddConc ==
  \E p \in Procs :
    \/ \E a \in {1, 2}, sv \in {1, 2} : AddBillStart(p, a, sv, 1)
    \/ AddBillFindPayment(p)
    \/ AddBillCreatePayment(p)
    \/ AddBillRefetchPayment(p)
    \/ AddBillFindService(p)
    \/ AddBillCreate(p)
    \/ RecalcRead(p)
    \/ RecalcWrite(p)
    \/ CreateNotificationPersist(p)
    \/ CreateNotificationPush(p, FALSE)

SpecAddConc == InitAddConc /\ [][NextAddConc]_vars

\* Number of requests handled in one behaviour with a failing notification store.
MaxAtomicOps == 2

\* Doctor 1 has a pending appointment with patient 1 tomorrow.
InitAtomic ==
  /\ InitRest
  /\ webSocketService = TRUE
  /\ appointments = <<DatedAppointment(1, 1)>>
  /\ budget = MaxAtomicOps

\* Bookings and status changes, one at a time, with a database that may
\* reject the insert of a notification.
NextAtomic ==
  \/ \E t \in Times : BookStart(1, "pu1", 1, 1, t, "checkup", 12)
  \/ PatientStatusStart(1, "pu1", 1, "CANCELLED", "none")
  \/ \E st \in {"SCHEDULED", "CANCELLED"} : DoctorStatusStart(1, "du1", 1, st, "none")
  \/ BookCheck(1)
  \/ BookCreate(1)
  \/ PatientStatusFind(1)
  \/ PatientStatusUpdate(1)
  \/ DoctorStatusFind(1)
  \/ DoctorStatusUpdate(1)
  \/ CreateNotificationPersist(1)
  \/ CreateNotificationPush(1, FALSE)
  \/ CreateNotificationFails(1)

SpecAtomic == InitAtomic /\ [][NextAtomic]_vars

\* Number of status requests handled concurrently on one appointment.
MaxRaceOps == 2

\* Doctor 1 has a pending appointment with patient 1 in five days.
InitRace ==
  /\ InitRest
  /\ webSocketService = TRUE
  /\ appointments = <<DatedAppointment(1, 5)>>
  /\ budget = MaxRaceOps

\* The patient's cancellation and the doctor's decision on the same
\* appointment, their steps interleaved.
NextRace ==
  \E p \in Procs :
    \/ PatientStatusStart(p, "pu1", 1, "CANCELLED", "none")
    \/ \E st \in {"SCHEDULED", "COMPLETED"} : DoctorStatusStart(p, "du1", 1, st, "none")
    \/ PatientStatusFind(p)
    \/ PatientStatusUpdate(p)
    \/ DoctorStatusFind(p)
    \/ DoctorStatusUpdate(p)
    \/ CreateNotificationPersist(p)
    \/ CreateNotificationPush(p, FALSE)

SpecRace == InitRace /\ [][NextRace]_vars

\* ------------------------------------------------------------------- claims
SameSlot(a, b) ==
  a.doctor_id = b.doctor_id /\ a.appointment_date = b.appointment_date /\ a.time = b.time

\* An appointment of `appts` that is not cancelled and holds the slot a request asks for.
HeldIn(appts, r) ==
  \E i \in DOMAIN appts :
    /\ appts[i].doctor_id = r.doctor_id
    /\ appts[i].appointment_date = r.date
    /\ appts[i].time = r.time
    /\ appts[i].status # "CANCELLED"

\* No request is between two of its steps.
Quiescent == \A p \in Procs : proc[p].pc \in {"idle", "done"}

\* The invoice totals agree with the bill lines.
TotalsMatchLines ==
  \A i \in DOMAIN payments : payments[i].total_amount = SumCost(BillsOfPayment(i))

\* C1: after any sequence of completed line mutations (one at a time), the last
\* of them successful, every invoice's total_amount equals the sum of total_cost
\* over the lines that belong to it.
C1_TotalEqualsSumOfLines ==
  (Quiescent /\ proc[1].result = "ok" /\ ~proc[1].failedBefore) => TotalsMatchLines

\* C2: once concurrent line mutations on one invoice have all completed
\* successfully, the invoice's total_amount equals the sum of total_cost of its lines.
C2_ConcurrentMutationsKeepTotal ==
  (\A p \in Procs : proc[p].pc = "done" /\ proc[p].result = "ok") => TotalsMatchLines

\* C3: in every reachable state at most one appointment whose status is not
\* CANCELLED occupies a given (doctor, date, time) slot.
C3_OneActiveAppointmentPerSlot ==
  \A i, j \in DOMAIN appointments :
    (i # j /\ SameSlot(appointments[i], appointments[j]))
      => (appointments[i].status = "CANCELLED" \/ appointments[j].status = "CANCELLED")

\* C4: a booking by an existing patient with an existing doctor is rejected
\* exactly when a non-cancelled appointment already holds the slot, and then
\* nothing is written; otherwise exactly one appointment is created, in status
\* PENDING, for that patient and slot (and the call reports success unless the
\* live push of one of its notifications raised).
C4_BookingRejectedIffSlotHeld ==
  \A p \in Procs :
    LET r == proc[p] IN
    (r.op = "book" /\ r.pc = "done" /\ r.patient_id # 0 /\ r.doctor_id \in DoctorIds) =>
      IF HeldIn(r.pre.appointments, r)
        THEN /\ r.result = "This time slot is already booked"
             /\ appointments = r.pre.appointments
             /\ notifications = r.pre.notifications
        ELSE /\ Len(appointments) = Len(r.pre.appointments) + 1
             /\ SubSeq(appointments, 1, Len(r.pre.appointments)) = r.pre.appointments
             /\ appointments[Len(appointments)] =
                  [patient_id |-> r.patient_id, doctor_id |-> r.doctor_id,
                   appointment_date |-> r.date, time |-> r.time, type |-> r.type,
                   status |-> "PENDING", reason |-> "none"]
             /\ (r.result = "ok" \/ r.raised)

\* C4 witness: a booking succeeded on a slot whose only holder was cancelled.
C4_Witness ==
  \E p \in Procs :
    LET r == proc[p] IN
    /\ r.op = "book" /\ r.pc = "done" /\ r.result = "ok"
    /\ \E i \in DOMAIN r.pre.appointments :
         /\ r.pre.appointments[i].status = "CANCELLED"
         /\ r.pre.appointments[i].doctor_id = r.doctor_id
         /\ r.pre.appointments[i].appointment_date = r.date
         /\ r.pre.appointments[i].time = r.time

\* C5: of two booking requests for the same slot that both started while the
\* slot was free, at most one creates an appointment.
C5_ConcurrentBookingsCreateAtMostOne ==
  \A p, q \in Procs :
    (/\ p # q
     /\ proc[p].op = "book" /\ proc[q].op = "book"
     /\ proc[p].doctor_id = proc[q].doctor_id
     /\ proc[p].date = proc[q].date
     /\ proc[p].time = proc[q].time
     /\ ~HeldIn(proc[p].pre.appointments, proc[p])
     /\ ~HeldIn(proc[q].pre.appointments, proc[q]))
      => ~(proc[p].appointmentId # 0 /\ proc[q].appointmentId # 0)

\* C6: a CANCELLED transition requested by the appointment's patient succeeds
\* only from PENDING; from any other status it fails with an error, the
\* appointment table is unchanged and no notification is created.
C6_PatientCancelOnlyFromPending ==
  \A p \in Procs :
    LET r == proc[p]
        id == r.appointmentId
    IN (/\ r.op = "patientStatus" /\ r.status = "CANCELLED" /\ r.patient_id # 0
        /\ id \in DOMAIN r.pre.appointments
        /\ r.pre.appointments[id].patient_id = r.patient_id) =>
         /\ r.pre.appointments[id].status # "PENDING" =>
              /\ appointments = r.pre.appointments
              /\ notifications = r.pre.notifications
              /\ r.pc = "done" => r.result = "Only pending appointments can be cancelled"
         /\ (r.pc = "done" /\ r.result = "ok") =>
              /\ r.pre.appointments[id].status = "PENDING"
              /\ appointments[id].status = "CANCELLED"

\* C6 witness: a patient's cancellation of a SCHEDULED appointment was refused.
C6_Witness ==
  \E p \in Procs :
    LET r == proc[p] IN
    /\ r.op = "patientStatus" /\ r.status = "CANCELLED" /\ r.pc = "done"
    /\ r.result = "Only pending appointments can be cancelled"
    /\ r.pre.appointments[r.appointmentId].status = "SCHEDULED"

\* C7: COMPLETED and CANCELLED are terminal: no step changes the status of an
\* appointment that is COMPLETED or CANCELLED.
C7_TerminalStatusNeverChanges ==
  [][\A i \in DOMAIN appointments :
       appointments[i].status \in {"COMPLETED", "CANCELLED"}
         => appointments'[i].status = appointments[i].status]_vars

\* C9: a live push that raises neither removes the persisted row nor makes the
\* operation that called createNotification report an error.
C9_DeliveryFailureAbsorbed ==
  \A p \in Procs :
    (proc[p].pc = "done" /\ proc[p].raised) =>
      /\ proc[p].notifId \in DOMAIN notifications
      /\ proc[p].result = "ok"

Range(seq) == {seq[i] : i \in DOMAIN seq}

\* C8: a notification is handed to the live push only once its row is
\* persisted, and a list request for the recipient made once the dispatch has
\* persisted the row returns that notification (an unread-only list: unless it
\* was read meanwhile), whatever the recipient's sessions and whether or not a
\* WebSocket service is installed.
C8_PersistedBeforePushAndListed ==
  /\ \A id \in pushed : id \in DOMAIN notifications
  /\ \A d \in delivered : d[2] \in DOMAIN notifications
  /\ \A p, q \in Procs :
       LET r == proc[p]
           l == proc[q] IN
       ( /\ r.op = "notify" /\ r.pc = "done"
         /\ l.op = "list" /\ l.pc = "done" /\ l.userId = r.userId
         /\ r.notifId \in DOMAIN l.pre.notifications )
       => /\ r.notifId \in DOMAIN notifications
          /\ notifications[r.notifId].userId = r.userId
          /\ (l.unread => ~l.pre.notifications[r.notifId].isRead)
               => r.notifId \in Range(l.out)

\* C8 witness: a dispatch made while no WebSocket service was installed and the
\* recipient had no session was followed by a list request that returned it.
C8_Witness ==
  /\ proc[1].op = "notify" /\ proc[1].pc = "done" /\ proc[1].result = "ok"
  /\ proc[1].notifId \notin pushed
  /\ proc[2].op = "list" /\ proc[2].pc = "done" /\ proc[2].userId = proc[1].userId
  /\ proc[1].notifId \in DOMAIN proc[2].pre.notifications
  /\ sockets = <<>>
  /\ ~webSocketService
  /\ proc[1].notifId \in Range(proc[2].out)

\* C10: markNotificationRead on an existing notification that is already read
\* reports no error and leaves the row as it was, isRead still true.
C10_MarkReadIdempotent ==
  \A p \in Procs :
    LET r == proc[p] IN
    ( /\ r.op = "markRead" /\ r.pc = "done"
      /\ r.notifId \in DOMAIN r.pre.notifications
      /\ r.pre.notifications[r.notifId].isRead )
    => /\ r.result = "ok"
       /\ notifications[r.notifId] = r.pre.notifications[r.notifId]
       /\ notifications[r.notifId].isRead

\* C10 witness: a markNotificationRead call on a notification that was already
\* read when the call was made has completed.
C10_Witness ==
  /\ proc[2].op = "markRead" /\ proc[2].pc = "done" /\ proc[2].result = "ok"
  /\ proc[2].notifId \in DOMAIN proc[2].pre.notifications
  /\ proc[2].pre.notifications[proc[2].notifId].isRead

\* C11: a generated final bill returns discountAmount = total * discount / 100
\* and payable = total - discountAmount (both held in hundredths), total being
\* the sum of total_cost over the invoice's current lines, and the payment row
\* holds that total as total_amount, the discount, the bill date and
\* finalized = true.
C11_FinalBillAmounts ==
  \A p \in Procs :
    LET r == proc[p]
        total == SumCost(BillsOfPayment(r.paymentId)) IN
    (r.op = "finalBill" /\ r.pc = "done" /\ r.result = "ok")
    => /\ r.discountAmount = total * r.discount
       /\ r.payable = 100 * total - r.discountAmount
       /\ payments[r.paymentId].appointment_id = r.appointmentId
       /\ payments[r.paymentId].total_amount = total
       /\ payments[r.paymentId].discount = r.discount
       /\ payments[r.paymentId].bill_date = r.bill_date
       /\ payments[r.paymentId].finalized

\* C11 witness: the final bill of an invoice of total 300 generated with
\* discount 10: payable 270, discountAmount 30.
C11_Witness ==
  /\ proc[1].op = "finalBill" /\ proc[1].pc = "done" /\ proc[1].result = "ok"
  /\ proc[1].discount = 10
  /\ payments[proc[1].paymentId].total_amount = 300
  /\ proc[1].payable = 27000
  /\ proc[1].discountAmount = 3000

\* A final bill generated again with the arguments and the lines of the
\* last generation leaves every payment row as it was.
RepeatedFinalBillChangesNothing ==
  \A p \in Procs :
    LET r == proc[p]
        before == r.pre.payments[r.paymentId] IN
    ( /\ r.op = "finalBill" /\ r.pc = "done" /\ r.result = "ok"
      /\ before.finalized
      /\ before.discount = r.discount
      /\ before.bill_date = r.bill_date
      /\ before.total_amount = SumCost(BillsOfPayment(r.paymentId)) )
    => payments = r.pre.payments

\* C12: no step clears the finalized flag of an invoice or removes the
\* invoice, and generating the final bill again with the same arguments leaves
\* the invoice as the first generation left it.
C12_FinalizedStaysTrue ==
  /\ [][\A i \in DOMAIN payments :
          payments[i].finalized => (i \in DOMAIN payments' /\ payments'[i].finalized)]_vars
  /\ []RepeatedFinalBillChangesNothing

\* C12 witness: the final bill of an invoice that was already finalized with
\* the same discount and bill date has been generated again, after a line was
\* added to the finalized invoice.
C12_Witness ==
  /\ proc[1].op = "finalBill" /\ proc[1].pc = "done" /\ proc[1].result = "ok"
  /\ proc[1].pre.payments[proc[1].paymentId].finalized
  /\ proc[1].pre.payments[proc[1].paymentId].discount = proc[1].discount
  /\ proc[1].pre.payments[proc[1].paymentId].bill_date = proc[1].bill_date
  /\ payments = proc[1].pre.payments
  /\ Len(bills) = 2

LineMutations == {"addBill", "deleteBill", "editBill"}

\* The line r addresses was there when the request r was made.
LineExistedBefore(r) ==
  r.billId \in DOMAIN r.pre.bills /\ ~r.pre.bills[r.billId].deleted

\* What a line mutation reports, from its arguments, the services and the
\* lines at the call alone.
OutcomeFromLinesAndArguments(r) ==
  CASE r.op = "addBill" ->
         IF r.service_id \in DOMAIN services THEN "ok" ELSE "Service not found"
    [] r.op = "deleteBill" ->
         IF LineExistedBefore(r) THEN "ok" ELSE "error"
    [] r.op = "editBill" ->
         IF ~LineExistedBefore(r) THEN "Bill not found"
         ELSE IF r.service_id # 0 /\ r.service_id \notin DOMAIN services
           THEN "Service not found"
         ELSE "ok"

\* The lines a line mutation leaves, from its arguments, the services and the
\* lines at the call alone.
LinesFromLinesAndArguments(r) ==
  IF OutcomeFromLinesAndArguments(r) # "ok" THEN r.pre.bills
  ELSE CASE r.op = "addBill" ->
              Append(r.pre.bills,
                [bill_id |-> r.paymentId, service_id |-> r.service_id,
                 quantity |-> r.quantity, unit_cost |-> services[r.service_id],
                 total_cost |-> services[r.service_id] * r.quantity, deleted |-> FALSE])
         [] r.op = "deleteBill" ->
              [r.pre.bills EXCEPT ![r.billId].deleted = TRUE]
         [] r.op = "editBill" ->
              [r.pre.bills EXCEPT ![r.billId] =
                 EditedBill(@, r.service_id,
                            IF r.service_id # 0 THEN services[r.service_id] ELSE 0,
                            r.quantity, @.unit_cost, @.quantity)]

\* C13: a completed line mutation on an existing or lazily created invoice
\* reports the outcome and leaves the lines that its arguments and the lines at
\* the call determine, and on success the total of those lines, whether the
\* invoice's finalized flag is true or false; the flag itself is left alone.
C13_LineMutationIgnoresFinalized ==
  \A p \in Procs :
    LET r == proc[p] IN
    (r.op \in LineMutations /\ r.pc = "done" /\ r.paymentId # 0)
    => /\ r.result = OutcomeFromLinesAndArguments(r)
       /\ bills = LinesFromLinesAndArguments(r)
       /\ r.result = "ok" =>
            payments[r.paymentId].total_amount = SumCost(BillsOfPayment(r.paymentId))
       /\ r.paymentId \in DOMAIN r.pre.payments =>
            payments[r.paymentId].finalized = r.pre.payments[r.paymentId].finalized

\* C13 witness: a line of a finalized invoice was deleted.
C13_Witness ==
  /\ proc[1].op = "deleteBill" /\ proc[1].pc = "done" /\ proc[1].result = "ok"
  /\ proc[1].pre.payments[proc[1].paymentId].finalized
  /\ bills[proc[1].billId].deleted

\* C15: after any sequence of completed addBill and editBill requests every
\* bill line has total_cost = unit_cost * quantity.
C15_LineCostIsUnitTimesQuantity ==
  Quiescent =>
    \A b \in DOMAIN bills :
      ~bills[b].deleted => bills[b].total_cost = bills[b].unit_cost * bills[b].quantity

\* The notifications created since the request r started.
CreatedSince(r) == {i \in DOMAIN notifications : i > Len(r.pre.notifications)}

\* C14: when a doctor's cancellation of one of their appointments has
\* completed, the patient has received exactly one notification, the
\* cancellation message, which carries the reason when one was given, and each
\* ADMIN user has received exactly one alert if the appointment date is within
\* 2 days of today and none otherwise.
C14_DoctorCancellationNotifications ==
  \A p \in Procs :
    LET r == proc[p]
        appt == appointments[r.appointmentId]
        to(u) == {i \in CreatedSince(r) : notifications[i].userId = u}
        near == DaysDiff(appt.appointment_date) \in -2 .. 2 IN
    (r.op = "doctorStatus" /\ r.status = "CANCELLED" /\ r.pc = "done" /\ r.result = "ok")
    => /\ Cardinality(to(UserOfPatient(appt.patient_id))) = 1
       /\ \A i \in to(UserOfPatient(appt.patient_id)) :
            /\ notifications[i].title = "Appointment Cancelled"
            /\ notifications[i].message = r.reason
       /\ \A a \in AdminUsers : Cardinality(to(a)) = IF near THEN 1 ELSE 0

\* C16: a status request of a doctor whose new status is none of PENDING,
\* SCHEDULED, COMPLETED, CANCELLED ends with 'Invalid status value', and
\* neither an appointment nor the notifications have changed.
C16_InvalidStatusRejected ==
  \A p \in Procs :
    LET r == proc[p] IN
    ( /\ r.op = "doctorStatus"
      /\ r.status \notin {"PENDING", "SCHEDULED", "COMPLETED", "CANCELLED"} )
    => /\ r.pc = "done"
       /\ r.result = "Invalid status value"
       /\ appointments = r.pre.appointments
       /\ notifications = r.pre.notifications

\* C16 witness: the doctor of appointment 1 asked for the status ARCHIVED
\* after an earlier request had changed an appointment.
C16_Witness ==
  /\ proc[1].op = "doctorStatus" /\ proc[1].status = "ARCHIVED"
  /\ proc[1].userId = "du1" /\ proc[1].appointmentId = 1
  /\ proc[1].result = "Invalid status value"
  /\ \E i \in DOMAIN appointments : appointments[i].status # "PENDING"

\* The edges of the appointment lifecycle.
LifecycleEdges ==
  {<<"PENDING", "SCHEDULED">>, <<"PENDING", "CANCELLED">>,
   <<"SCHEDULED", "COMPLETED">>, <<"SCHEDULED", "CANCELLED">>}

\* C19: every step that changes the status of an appointment follows an edge
\* of the lifecycle PENDING -> SCHEDULED | CANCELLED, SCHEDULED -> COMPLETED |
\* CANCELLED.
C19_StatusChangesFollowLifecycle ==
  [][\A i \in DOMAIN appointments :
       (i \in DOMAIN appointments' /\ appointments'[i].status # appointments[i].status)
       => <<appointments[i].status, appointments'[i].status>> \in LifecycleEdges]_vars

\* C20: of the notifications a completed booking or cancellation request has
\* created, those to the patient or the doctor come before those to ADMIN users.
C20_PrimaryPartyBeforeAdmins ==
  \A p \in Procs :
    LET r == proc[p] IN
    (r.op \in {"book", "patientStatus", "doctorStatus"} /\ r.pc = "done" /\ r.result = "ok")
    => \A i, j \in CreatedSince(r) :
         (notifications[i].userId \in AdminUsers /\ notifications[j].userId \notin AdminUsers)
         => j < i

\* C17: after a line mutation that ended with an error, either the lines are
\* those of before the call or the invoice's total_amount is the sum of its
\* lines: the line change is never in effect without the matching total.
C17_FailedMutationNotHalfApplied ==
  \A p \in Procs :
    LET r == proc[p] IN
    ( /\ r.op \in LineMutations /\ r.pc = "done" /\ r.result # "ok"
      /\ r.paymentId # 0 )
    => \/ bills = r.pre.bills
       \/ payments[r.paymentId].total_amount = SumCost(BillsOfPayment(r.paymentId))

\* C18: every step keeps each stored notification, with its owner, title and
\* message, never takes isRead from true back to false, and adds rows only
\* with isRead = false.
C18_StoreAppendOnlyReadOneWay ==
  [][/\ Len(notifications') >= Len(notifications)
     /\ \A i \in DOMAIN notifications :
          /\ notifications'[i].userId = notifications[i].userId
          /\ notifications'[i].title = notifications[i].title
          /\ notifications'[i].message = notifications[i].message
          /\ notifications[i].isRead => notifications'[i].isRead
     /\ \A i \in DOMAIN notifications' \ DOMAIN notifications :
          notifications'[i].isRead = FALSE]_vars

\* C18 witness: a notification was created after an earlier one had been
\* marked read over a socket and through markNotificationRead.
C18_Witness ==
  /\ Len(notifications) = 2
  /\ notifications[1].isRead /\ ~notifications[2].isRead
  /\ proc[2].op = "markRead" /\ proc[2].result = "ok" /\ proc[2].notifId = 1
  /\ proc[2].pre.notifications[1].isRead

\* The titles of the notifications created since the request r started, in
\* the order of their creation.
TitlesCreatedSince(r) ==
  [k \in 1 .. (Len(notifications) - Len(r.pre.notifications)) |->
     notifications[Len(r.pre.notifications) + k].title]

\* C21: a completed doctor's status request has created, all for the patient
\* of the appointment and none for an ADMIN user: for SCHEDULED an approval
\* then a reminder, for COMPLETED one completion message, for PENDING (the
\* accepted status with no case of its own) one status-updated message.
C21_DoctorTransitionNotifications ==
  \A p \in Procs :
    LET r == proc[p]
        appt == appointments[r.appointmentId] IN
    ( /\ r.op = "doctorStatus" /\ r.pc = "done" /\ r.result = "ok"
      /\ r.status \in {"SCHEDULED", "COMPLETED", "PENDING"} )
    => /\ \A i \in CreatedSince(r) : notifications[i].userId = UserOfPatient(appt.patient_id)
       /\ TitlesCreatedSince(r) =
            CASE r.status = "SCHEDULED" -> <<"Appointment Approved!", "Appointment Reminder">>
              [] r.status = "COMPLETED" -> <<"Appointment Completed">>
              [] r.status = "PENDING" -> <<"Appointment Status Updated">>

\* C21 witness: the doctor approved an appointment after having completed
\* another one.
C21_Witness ==
  /\ proc[1].op = "doctorStatus" /\ proc[1].pc = "done" /\ proc[1].result = "ok"
  /\ proc[1].status = "SCHEDULED"
  /\ Len(notifications) = 3
  /\ notifications[1].title = "Appointment Completed"

\* C22: when a patient's cancellation of a PENDING appointment has completed,
\* the appointment's doctor has received exactly one notification, the
\* cancellation message, and each ADMIN user exactly one alert if the
\* appointment date is within 1 day of today and none otherwise.
C22_PatientCancellationNotifications ==
  \A p \in Procs :
    LET r == proc[p]
        appt == appointments[r.appointmentId]
        to(u) == {i \in CreatedSince(r) : notifications[i].userId = u}
        near == DaysDiff(appt.appointment_date) \in -1 .. 1 IN
    ( /\ r.op = "patientStatus" /\ r.status = "CANCELLED" /\ r.pc = "done" /\ r.result = "ok"
      /\ r.existingStatus = "PENDING" )
    => /\ Cardinality(to(UserOfDoctor(appt.doctor_id))) = 1
       /\ \A i \in to(UserOfDoctor(appt.doctor_id)) :
            notifications[i].title = "Appointment Cancelled by Patient"
       /\ \A a \in AdminUsers : Cardinality(to(a)) = IF near THEN 1 ELSE 0

\* C23: a completed successful booking has created one notification for the
\* doctor, one for the booking patient, and one for each ADMIN user if the
\* request came between 8 and 17 o'clock or its type is urgent or emergency,
\* none for them otherwise; a rejected booking has created none.
C23_BookingNotifications ==
  \A p \in Procs :
    LET r == proc[p]
        to(u) == {i \in CreatedSince(r) : notifications[i].userId = u}
        admins == r.hour \in 8 .. 17 \/ r.type \in {"urgent", "emergency"} IN
    (r.op = "book" /\ r.pc = "done")
    => IF r.result = "ok"
         THEN /\ Cardinality(to(UserOfDoctor(r.doctor_id))) = 1
              /\ Cardinality(to(r.userId)) = 1
              /\ \A a \in AdminUsers : Cardinality(to(a)) = IF admins THEN 1 ELSE 0
              /\ Cardinality(CreatedSince(r)) = 2 + IF admins THEN Cardinality(AdminUsers) ELSE 0
         ELSE notifications = r.pre.notifications

\* C23 witness: an emergency booking made at 18 o'clock has notified the
\* doctor, the patient and both admins.
C23_Witness ==
  /\ proc[1].op = "book" /\ proc[1].pc = "done" /\ proc[1].result = "ok"
  /\ proc[1].hour = 18 /\ proc[1].type = "emergency"
  /\ Len(notifications) = 4

\* C24: an addBill request that ended with 'Appointment not found' or
\* 'Service not found', and a final bill request that ended with 'No bills to
\* generate final bill', have left the payments, the bill lines and the
\* notifications as they were.
C24_NotFoundLeavesLedgerUnchanged ==
  \A p \in Procs :
    LET r == proc[p] IN
    ( /\ r.op \in {"addBill", "finalBill"} /\ r.pc = "done"
      /\ r.result \in {"Appointment not found", "Service not found",
                       "No bills to generate final bill"} )
    => /\ payments = r.pre.payments
       /\ bills = r.pre.bills
       /\ notifications = r.pre.notifications

\* C25: a completed addBill, editBill or deleteBill request on an invoice that
\* existed at the call has left every column of every payment as it was,
\* except the total_amount of that invoice.
C25_LineMutationChangesOnlyTotal ==
  \A p \in Procs :
    LET r == proc[p] IN
    ( /\ r.op \in LineMutations /\ r.pc = "done"
      /\ r.paymentId \in DOMAIN r.pre.payments )
    => /\ DOMAIN payments = DOMAIN r.pre.payments
       /\ \A i \in DOMAIN payments :
            payments[i] = [r.pre.payments[i] EXCEPT
                             !.total_amount = IF i = r.paymentId THEN payments[i].total_amount
                                                                 ELSE @]

\* C25 witness: a line was added to a finalized invoice with a discount, and
\* its total_amount has changed.
C25_Witness ==
  /\ proc[1].op = "addBill" /\ proc[1].pc = "done" /\ proc[1].result = "ok"
  /\ proc[1].paymentId \in DOMAIN proc[1].pre.payments
  /\ proc[1].pre.payments[proc[1].paymentId].finalized
  /\ proc[1].pre.payments[proc[1].paymentId].discount = 15
  /\ payments[proc[1].paymentId].total_amount
       # proc[1].pre.payments[proc[1].paymentId].total_amount

\* After a completed successful line mutation: the lines it did not address
\* are as before; an edit without service_id has kept the line's unit_cost and
\* computed total_cost from it; an edit with a service_id has taken the
\* service's price at the call; the invoice total is the sum of the stored
\* total_cost values.
LinesKeepTheirSnapshot ==
  \A p \in Procs :
    LET r == proc[p] IN
    (r.op \in LineMutations /\ r.pc = "done" /\ r.result = "ok")
    => /\ \A b \in DOMAIN r.pre.bills : b # r.billId => bills[b] = r.pre.bills[b]
       /\ (r.op = "editBill" /\ r.service_id = 0)
            => /\ bills[r.billId].unit_cost = r.pre.bills[r.billId].unit_cost
               /\ bills[r.billId].total_cost =
                    r.pre.bills[r.billId].unit_cost * bills[r.billId].quantity
       /\ (r.op = "editBill" /\ r.service_id # 0)
            => bills[r.billId].unit_cost = r.pre.services[r.service_id]
       /\ r.op = "addBill"
            => bills[r.billId].unit_cost = r.pre.services[r.service_id]
       /\ payments[r.paymentId].total_amount = SumCost(BillsOfPayment(r.paymentId))

\* C26: a change of a service's catalog price changes no bill line and no
\* invoice total; an edit of the quantity alone keeps the line's unit_cost
\* even when the catalog price has changed since, and only an edit that names
\* a service takes the price again.
C26_UnitCostIsSnapshot ==
  /\ [][services' # services => (bills' = bills /\ payments' = payments)]_vars
  /\ []LinesKeepTheirSnapshot

\* C26 witness: the quantity of a line of service 1 was edited after the
\* price of service 1 had changed; the line still has the old unit_cost.
C26_Witness ==
  /\ proc[1].op = "editBill" /\ proc[1].pc = "done" /\ proc[1].result = "ok"
  /\ proc[1].service_id = 0
  /\ bills[1].service_id = 1
  /\ bills[1].unit_cost = 100 /\ bills[1].total_cost = 300
  /\ proc[1].pre.services[1] = 150

\* The titles of the notifications of the admin fan-outs.
AdminFanoutTitles ==
  {"New Appointment Request (admin)", "Doctor Cancelled Appointment",
   "Urgent: Same-Day Appointment Cancellation", "Daily Appointment Report",
   "Weekly Analytics Report"}

\* C27: when a request or report that began an admin fan-out is over, the
\* fan-out has persisted exactly one row for each ADMIN user, owned by that
\* user, and no fan-out row for a user of another role.
C27_FanoutOneRowPerAdmin ==
  \A p \in Procs :
    LET r == proc[p]
        rows == {i \in CreatedSince(r) : notifications[i].title \in AdminFanoutTitles} IN
    (r.pc = "done" /\ rows # {})
    => /\ \A i \in rows : notifications[i].userId \in AdminUsers
       /\ \A a \in AdminUsers :
            Cardinality({i \in rows : notifications[i].userId = a}) = 1

\* C28: a role_notification for a role has reached only sockets of users who
\* have that role.
C28_RolePushOnlyToRole ==
  \A e \in emitted : sockets[e[1]].userRole = e[2]

\* The connected sessions of a user.
SessionsOf(userId) ==
  {s \in DOMAIN sockets : sockets[s].connected /\ sockets[s].userId = userId}

\* C29: when createNotification hands a row to the live push and the send
\* does not throw, the row is already stored for its recipient and every
\* session the recipient has connected at that moment receives it, whether
\* or not connectedUsers has an entry for the recipient.
C29_PushReachesEverySession ==
  [][\A p \in Procs :
       (proc[p].pc = "cn_push" /\ proc'[p].pc # "cn_push" /\ ~proc'[p].raised)
       => LET id == proc[p].notifId
              userId == Head(proc[p].todo).userId IN
          /\ id \in DOMAIN notifications
          /\ notifications[id].userId = userId
          /\ \A s \in SessionsOf(userId) : <<s, id>> \in delivered']_vars

\* Two sessions of pu1, the first one closed (which deleted pu1's entry of
\* connectedUsers); a notification dispatched afterwards reached the second.
C29_Witness ==
  /\ Len(sockets) >= 2
  /\ sockets[1].userId = "pu1" /\ ~sockets[1].connected
  /\ sockets[2].userId = "pu1" /\ sockets[2].connected
  /\ connectedUsers["pu1"] = 0
  /\ \E id \in DOMAIN notifications :
       /\ notifications[id].userId = "pu1"
       /\ <<2, id>> \in delivered
       /\ <<1, id>> \notin delivered

\* The socket is in a user's room or in connectedUsers.
Registered(s) ==
  \/ sockets[s].connected
  \/ \E u \in DOMAIN connectedUsers : connectedUsers[u] = s

\* C30: a connection in connectedUsers or in a user's room presented a token
\* that verifies and names a user whose status is ACTIVE, and the room is that
\* user's; a connection without such a token is in neither.
C30_OnlyVerifiedActiveUsersRegistered ==
  \A s \in DOMAIN sockets :
    Registered(s)
    => /\ sockets[s].token.present /\ sockets[s].token.valid
       /\ sockets[s].token.id \in Users
       /\ sockets[s].userId = sockets[s].token.id

\* One connection was refused for an inactive user and another one, of an
\* active user, is registered.
C30_Witness ==
  /\ \E s \in DOMAIN sockets :
       /\ sockets[s].token = Jwt(TRUE, "pu3")
       /\ ~Registered(s)
  /\ \E s \in DOMAIN sockets :
       /\ sockets[s].connected
       /\ connectedUsers[sockets[s].userId] = s

\* C31: no step removes an appointment or changes the patient, doctor, date,
\* time or type of one, and an appointment changes only in the update step of
\* a status transition on it.
C31_OnlyStatusAndReasonChange ==
  [][/\ Len(appointments') >= Len(appointments)
     /\ \A i \in DOMAIN appointments :
          LET a == appointments[i]
              b == appointments'[i] IN
          /\ b.patient_id = a.patient_id
          /\ b.doctor_id = a.doctor_id
          /\ b.appointment_date = a.appointment_date
          /\ b.time = a.time
          /\ b.type = a.type
          /\ b # a => \E p \in Procs : /\ proc[p].pc \in {"ds_update", "ps_update"}
                                       /\ proc[p].appointmentId = i]_vars

\* The doctor cancelled an appointment with a reason.
C31_Witness ==
  /\ proc[1].op = "doctorStatus" /\ proc[1].pc = "done" /\ proc[1].result = "ok"
  /\ \E i \in DOMAIN appointments :
       /\ appointments[i].status = "CANCELLED"
       /\ appointments[i].reason = "emergency"
       /\ appointments[i].time = "09:00"

\* isUserConnected(userId): connectedUsers.has(userId)
IsUserConnected(userId) == connectedUsers[userId] # 0

\* The sessions authenticated as the user, connected or not.
SessionsEverOf(userId) == {s \in DOMAIN sockets : sockets[s].userId = userId}

\* C32: a user whose most recently connected session is still connected is
\* reported live by the registry, whatever older sessions disconnected.
C32_NewestSessionKeepsUserLive ==
  \A u \in Users :
    LET mine == SessionsEverOf(u) IN
    (mine # {} /\ sockets[CHOOSE s \in mine : \A x \in mine : x <= s].connected)
    => IsUserConnected(u)

\* getConnectedUsersCount(): connectedUsers.size
GetConnectedUsersCount == Cardinality({u \in DOMAIN connectedUsers : connectedUsers[u] # 0})

\* C33: a session id the registry holds for a user is a connected session
\* authenticated as that user, and the number of users the registry counts
\* is at most the number of users with a connected session.
C33_RegistryHasNoFalsePositive ==
  /\ \A u \in DOMAIN connectedUsers :
       connectedUsers[u] # 0
       => /\ connectedUsers[u] \in DOMAIN sockets
          /\ sockets[connectedUsers[u]].connected
          /\ sockets[connectedUsers[u]].userId = u
  /\ GetConnectedUsersCount
       <= Cardinality({u \in DOMAIN connectedUsers : SessionsOf(u) # {}})

\* A session has disconnected and the registry still holds the connected
\* session of another user.
C33_Witness ==
  /\ \E s \in DOMAIN sockets : sockets[s].userId # "" /\ ~sockets[s].connected
  /\ \E u \in Users : IsUserConnected(u) /\ sockets[connectedUsers[u]].connected

\* C34: every new_notification a step delivers goes to a connected session
\* authenticated as the owner of the notification, in the push of that
\* notification: sessions of other users receive nothing from it.
C34_PushOnlyToOwnerSessions ==
  [][\A e \in delivered' \ delivered :
       /\ sockets[e[1]].connected
       /\ sockets[e[1]].userId = notifications[e[2]].userId
       /\ \E p \in Procs : proc[p].pc = "cn_push" /\ proc[p].notifId = e[2]]_vars

\* pu1 and du1 are both connected; du1's session received du1's notification
\* and, later, pu1's session alone received pu1's.
C34_Witness ==
  /\ Len(sockets) >= 2
  /\ sockets[1].userId = "pu1" /\ sockets[1].connected
  /\ sockets[2].userId = "du1" /\ sockets[2].connected
  /\ \E i, j \in DOMAIN notifications :
       /\ i < j
       /\ notifications[i].userId = "du1" /\ <<2, i>> \in delivered
       /\ notifications[j].userId = "pu1" /\ <<1, j>> \in delivered
       /\ <<2, j>> \notin delivered

\* C35: a completed editBill or deleteBill request for an appointment, on a
\* line that belongs to the invoice of another appointment, has failed and
\* has left every line and every payment as it was.
C35_LineOfAnotherInvoiceUntouched ==
  \A p \in Procs :
    LET r == proc[p] IN
    ( /\ r.op \in {"editBill", "deleteBill"} /\ r.pc = "done"
      /\ r.paymentId # 0
      /\ LineExistedBefore(r)
      /\ r.pre.bills[r.billId].bill_id # r.paymentId )
    => /\ r.result # "ok"
       /\ bills = r.pre.bills
       /\ payments = r.pre.payments

\* The user of the request is the doctor, or the patient, of the appointment
\* the request addresses.
IsParty(r) ==
  LET appt == r.pre.appointments[r.appointmentId] IN
  \/ r.op = "doctorStatus" /\ DoctorOfUser(r.userId) # 0
                           /\ appt.doctor_id = DoctorOfUser(r.userId)
  \/ r.op = "patientStatus" /\ PatientOfUser(r.userId) # 0
                            /\ appt.patient_id = PatientOfUser(r.userId)

\* C36: a completed status request on an existing appointment by a user who
\* is neither its doctor (doctor route) nor its patient (patient route) has
\* ended with 'Appointment not found' and has left the appointments and the
\* notifications as they were.
C36_OnlyPartiesChangeAppointments ==
  \A p \in Procs :
    LET r == proc[p] IN
    ( /\ r.op \in {"doctorStatus", "patientStatus"} /\ r.pc = "done"
      /\ r.appointmentId \in DOMAIN r.pre.appointments
      /\ ~IsParty(r) )
    => /\ r.result = "Appointment not found"
       /\ appointments = r.pre.appointments
       /\ notifications = r.pre.notifications

\* Doctor 2 asked to cancel an appointment of doctor 1 after doctor 1 had
\* approved it.
C36_Witness ==
  /\ proc[1].op = "doctorStatus" /\ proc[1].userId = "du2" /\ proc[1].pc = "done"
  /\ proc[1].appointmentId = 1
  /\ appointments[1].status = "SCHEDULED"

\* C37: when notification_read events are the only way notifications get
\* read, a notification that is read is owned by a user who has had a
\* session: no event sent over one user's session marks a notification of a
\* different user.
C37_ReadOnlyByOwnerSession ==
  \A i \in DOMAIN notifications :
    notifications[i].isRead
    => \E s \in DOMAIN sockets : sockets[s].userId = notifications[i].userId

\* C38: in every state no two payments have the same appointment, every bill
\* line belongs to a payment, and the line an addBill request for an
\* appointment has created is on the payment of that appointment, also when
\* addBill requests for an appointment without payment interleave.
C38_OneInvoicePerAppointment ==
  /\ \A i, j \in DOMAIN payments :
       payments[i].appointment_id = payments[j].appointment_id => i = j
  /\ \A b \in DOMAIN bills : bills[b].bill_id \in DOMAIN payments
  /\ \A p \in Procs :
       (proc[p].op = "addBill" /\ proc[p].billId # 0)
       => payments[bills[proc[p].billId].bill_id].appointment_id = proc[p].appointmentId

\* Two addBill requests started while the appointment had no payment: the
\* create of one was refused and it left no line, the other added its line
\* to the single payment.
C38_Witness ==
  /\ Len(payments) = 1
  /\ \E p, q \in Procs :
       /\ proc[p].op = "addBill" /\ proc[p].pc = "done" /\ proc[p].result = "error"
       /\ proc[p].pre.payments = <<>> /\ proc[p].billId = 0
       /\ proc[q].op = "addBill" /\ proc[q].pre.payments = <<>> /\ proc[q].billId # 0
       /\ bills[proc[q].billId].bill_id = 1

\* C39: a booking or status request that ended with an error has left the
\* appointments as they were when it started: no appointment created, no
\* status or reason changed.
C39_FailedRequestChangesNothing ==
  \A p \in Procs :
    LET r == proc[p] IN
    ( /\ r.op \in {"book", "patientStatus", "doctorStatus"}
      /\ r.pc = "done" /\ r.result # "ok" )
    => appointments = r.pre.appointments

\* C40: the update step of a patient's request never changes to CANCELLED an
\* appointment whose status is SCHEDULED or COMPLETED, whatever the
\* interleaving with the doctor's request.
C40_PatientCancelNeverOverwritesDoctor ==
  [][\A p \in Procs :
       (proc[p].pc = "ps_update" /\ proc'[p].pc # "ps_update")
       => ~ /\ appointments[proc[p].appointmentId].status \in {"SCHEDULED", "COMPLETED"}
            /\ appointments'[proc[p].appointmentId].status = "CANCELLED"]_vars
====
